---------------------------- MODULE Spec2Model ----------------------------
(***************************************************************************)
(* A model of the local state stores of the messenger's Tauri backend:     *)
(*   AuthManager            (src-tauri/src/auth.rs)                        *)
(*   AuthPreferencesManager (src-tauri/src/auth_preferences.rs)            *)
(*   SettingsManager        (src-tauri/src/settings.rs)                    *)
(* Each manager keeps one record in memory behind a Mutex and mirrors it   *)
(* in a JSON file; the preferences manager also encrypts the remembered    *)
(* password with AES-256-GCM under a key kept in a key file.               *)
(*                                                                         *)
(* Conventions.  Option<T> is a sequence of length at most one: <<>> is    *)
(* None and <<x>> is Some(x).  A Rust String holding a password is the     *)
(* sequence of its Unicode scalar values; every other string is an opaque  *)
(* TLA+ string.  Bytes are the integers 0..255.                            *)
(***************************************************************************)
EXTENDS Integers, Sequences, FiniteSets, TLC

None == <<>>
Some(x) == <<x>>
IsSome(o) == Len(o) = 1

Min(a, b) == IF a < b THEN a ELSE b

(***************************************************************************)
(* Bounds of the model: how many distinct values the random number         *)
(* generator can return for a key and for a nonce, and how many calls of   *)
(* the file system fail.                                                   *)
(***************************************************************************)
NumKeys == 2
NumNonces == 2
\* How many calls of the file system fail in one behaviour.
MaxFaults == 1

(***************************************************************************)
(* Sizes fixed by the program and by the libraries it calls.               *)
(***************************************************************************)
KeyLen == 32
NonceLen == 12
TagLen == 16
PadChar == 64
BadChar == 65

Byte == 0..255

(***************************************************************************)
(* String::as_bytes and String::from_utf8: UTF-8.                          *)
(***************************************************************************)
EncodeScalar(c) ==
    IF c < 128 THEN <<c>>
    ELSE IF c < 2048 THEN <<192 + (c \div 64), 128 + (c % 64)>>
    ELSE IF c < 65536
         THEN <<224 + (c \div 4096), 128 + ((c \div 64) % 64), 128 + (c % 64)>>
         ELSE <<240 + (c \div 262144), 128 + ((c \div 4096) % 64),
                128 + ((c \div 64) % 64), 128 + (c % 64)>>

RECURSIVE AsBytes(_)
AsBytes(s) ==
    IF s = <<>> THEN <<>> ELSE EncodeScalar(Head(s)) \o AsBytes(Tail(s))

IsCont(b) == b >= 128 /\ b <= 191

\* The length of the UTF-8 sequence starting at bytes[i], 0 when it is not
\* well formed.
ScalarWidth(bytes, i) ==
    LET b == bytes[i]
        n == Len(bytes)
    IN  IF b < 128 THEN 1
        ELSE IF b >= 194 /\ b <= 223
             THEN IF i + 1 <= n /\ IsCont(bytes[i + 1]) THEN 2 ELSE 0
        ELSE IF b >= 224 /\ b <= 239
             THEN IF /\ i + 2 <= n
                     /\ bytes[i + 1] >= (IF b = 224 THEN 160 ELSE 128)
                     /\ bytes[i + 1] <= (IF b = 237 THEN 159 ELSE 191)
                     /\ IsCont(bytes[i + 2])
                  THEN 3 ELSE 0
        ELSE IF b >= 240 /\ b <= 244
             THEN IF /\ i + 3 <= n
                     /\ bytes[i + 1] >= (IF b = 240 THEN 144 ELSE 128)
                     /\ bytes[i + 1] <= (IF b = 244 THEN 143 ELSE 191)
                     /\ IsCont(bytes[i + 2])
                     /\ IsCont(bytes[i + 3])
                  THEN 4 ELSE 0
        ELSE 0

DecodeScalar(bytes, i, w) ==
    IF w = 1 THEN bytes[i]
    ELSE IF w = 2 THEN (bytes[i] - 192) * 64 + (bytes[i + 1] - 128)
    ELSE IF w = 3
         THEN (bytes[i] - 224) * 4096 + (bytes[i + 1] - 128) * 64
              + (bytes[i + 2] - 128)
         ELSE (bytes[i] - 240) * 262144 + (bytes[i + 1] - 128) * 4096
              + (bytes[i + 2] - 128) * 64 + (bytes[i + 3] - 128)

RECURSIVE Utf8Valid(_, _)
Utf8Valid(bytes, i) ==
    IF i > Len(bytes) THEN TRUE
    ELSE LET w == ScalarWidth(bytes, i)
         IN  w > 0 /\ Utf8Valid(bytes, i + w)

RECURSIVE Utf8Scalars(_, _)
Utf8Scalars(bytes, i) ==
    IF i > Len(bytes) THEN <<>>
    ELSE LET w == ScalarWidth(bytes, i)
         IN  <<DecodeScalar(bytes, i, w)>> \o Utf8Scalars(bytes, i + w)

\* Result<String, FromUtf8Error>
FromUtf8(bytes) ==
    IF Utf8Valid(bytes, 1)
    THEN [ok |-> TRUE, s |-> Utf8Scalars(bytes, 1)]
    ELSE [ok |-> FALSE, s |-> <<>>]

(***************************************************************************)
(* base64::engine::general_purpose::STANDARD.  A character of the text is  *)
(* the index 0..63 of a symbol of the alphabet, PadChar for '=' and        *)
(* BadChar for any byte outside the alphabet.                              *)
(***************************************************************************)
B64Encode(bytes) ==
    LET n == Len(bytes)
        At(k) == IF k <= n THEN bytes[k] ELSE 0
    IN  [c \in 1..(4 * ((n + 2) \div 3)) |->
            LET g == (c - 1) \div 4
                q == (c - 1) % 4
                b0 == At(3 * g + 1)
                b1 == At(3 * g + 2)
                b2 == At(3 * g + 3)
            IN  IF q = 0 THEN b0 \div 4
                ELSE IF q = 1 THEN (b0 % 4) * 16 + (b1 \div 16)
                ELSE IF q = 2
                     THEN IF 3 * g + 2 > n THEN PadChar
                          ELSE (b1 % 16) * 4 + (b2 \div 64)
                     ELSE IF 3 * g + 3 > n THEN PadChar ELSE b2 % 64]

\* The number of '=' the text ends with (at most two are looked at).
B64Padding(text) ==
    LET n == Len(text)
    IN  IF n >= 1 /\ text[n] = PadChar
        THEN IF n >= 2 /\ text[n - 1] = PadChar THEN 2 ELSE 1
        ELSE 0

\* STANDARD decodes only canonical text: whole quads, symbols of the
\* alphabet, padding at the end only, and no stray bits in the last symbol.
B64Wellformed(text) ==
    LET n == Len(text)
        p == B64Padding(text)
    IN  /\ n % 4 = 0
        /\ \A k \in 1..(n - p) : text[k] < PadChar
        /\ p = 1 => text[n - 1] % 4 = 0
        /\ p = 2 => text[n - 2] % 16 = 0

B64Bytes(text) ==
    LET n == Len(text)
        p == B64Padding(text)
        S(k) == IF text[k] < PadChar THEN text[k] ELSE 0
    IN  [k \in 1..(3 * (n \div 4) - p) |->
            LET g == (k - 1) \div 3
                r == (k - 1) % 3
                a == S(4 * g + 1)
                b == S(4 * g + 2)
                c == S(4 * g + 3)
                d == S(4 * g + 4)
            IN  IF r = 0 THEN a * 4 + (b \div 16)
                ELSE IF r = 1 THEN (b % 16) * 16 + (c \div 4)
                ELSE (c % 4) * 64 + d]

\* Result<Vec<u8>, DecodeError>
B64Decode(text) ==
    IF B64Wellformed(text)
    THEN [ok |-> TRUE, bytes |-> B64Bytes(text)]
    ELSE [ok |-> FALSE, bytes |-> <<>>]

(***************************************************************************)
(* Aes256Gcm of the aes_gcm crate, with no associated data.  The block     *)
(* cipher is replaced by byte arithmetic that keeps the construction of    *)
(* GCM: the ciphertext is the plaintext combined with a keystream derived  *)
(* from the key and the nonce, and the tag is a keyed mask derived from    *)
(* the key and the nonce, combined with a hash of the ciphertext and of    *)
(* its length in which every byte has an invertible weight.  As in GCM a   *)
(* change of one byte of the nonce, of the ciphertext or of the tag, and   *)
(* a change of the key, is detected.                                       *)
(***************************************************************************)
RECURSIVE WeightedSum(_, _)
WeightedSum(bytes, i) ==
    IF i > Len(bytes) THEN 0
    ELSE (bytes[i] * (2 * i + 1) + WeightedSum(bytes, i + 1)) % 256

KeyStream(key, nonce, i) ==
    (key[((i - 1) % KeyLen) + 1] + nonce[((i - 1) % NonceLen) + 1] + i) % 256

GcmTag(key, nonce, ct) ==
    LET mask == WeightedSum(nonce, 1)
        hash == WeightedSum(ct, 1)
    IN  [j \in 1..TagLen |->
            (key[j] + key[j + TagLen] + j * mask + (2 * j + 1) * hash
             + j * Len(ct)) % 256]

\* Aead::encrypt: ciphertext followed by the tag.
GcmSeal(key, nonce, pt) ==
    LET ct == [i \in 1..Len(pt) |-> (pt[i] + KeyStream(key, nonce, i)) % 256]
    IN  ct \o GcmTag(key, nonce, ct)

\* Aead::decrypt: Result<Vec<u8>, aead::Error>
\* A variant that decrypts in counter mode without verifying the tag.
GcmOpenUnverified(key, nonce, body) ==
    LET n == Len(body) - TagLen
    IN  IF n < 0 THEN [ok |-> FALSE, pt |-> <<>>]
        ELSE [ok |-> TRUE,
              pt |-> [i \in 1..n |->
                         (body[i] + 256 - KeyStream(key, nonce, i)) % 256]]

GcmOpen(key, nonce, body) ==
    IF Len(body) < TagLen THEN [ok |-> FALSE, pt |-> <<>>]
    ELSE LET n == Len(body) - TagLen
             ct == SubSeq(body, 1, n)
             tag == SubSeq(body, n + 1, Len(body))
         IN  IF tag = GcmTag(key, nonce, ct)
             THEN [ok |-> TRUE,
                   pt |-> [i \in 1..n |->
                              (ct[i] + 256 - KeyStream(key, nonce, i)) % 256]]
             ELSE [ok |-> FALSE, pt |-> <<>>]

(***************************************************************************)
(* rand::thread_rng().gen(): the values the generator can return for a     *)
(* [u8; 32] key and for a [u8; 12] nonce.                                  *)
(***************************************************************************)
KeyOf(s) == [i \in 1..KeyLen |-> (37 * s + i * s) % 256]
NonceOf(s) == [i \in 1..NonceLen |-> (11 * s + i) % 256]
GenKeys == {KeyOf(s) : s \in 1..NumKeys}
GenNonces == {NonceOf(s) : s \in 1..NumNonces}

(***************************************************************************)
(* serde_json documents.  A JSON value is a tagged record; an object is a  *)
(* record from its keys to their values.  The contents of a file is        *)
(* Some(document) when the text is JSON and None when it is not (an empty  *)
(* or cut-off file for instance).                                          *)
(***************************************************************************)
JNull == [t |-> "null"]
JBool(b) == [t |-> "bool", v |-> b]
JStr(x) == [t |-> "str", v |-> x]
JNum(n) == [t |-> "num", v |-> n]
JArr(q) == [t |-> "arr", v |-> q]
JObj(o) == [t |-> "obj", v |-> o]

IsJ(j, tag) == j.t = tag
HasKey(j, k) == IsJ(j, "obj") /\ k \in DOMAIN j.v
\* A required field of the given type.
HasField(j, k, tag) == HasKey(j, k) /\ IsJ(j.v[k], tag)
\* An Option<String> field: absent and null both read as None.
HasOptStr(j, k) == HasKey(j, k) => (IsJ(j.v[k], "null") \/ IsJ(j.v[k], "str"))
OptStrOf(j, k) == IF HasKey(j, k) /\ IsJ(j.v[k], "str") THEN Some(j.v[k].v) ELSE None
JOptStr(o) == IF IsSome(o) THEN JStr(o[1]) ELSE JNull

\* The object o extended with key k when the Option o is Some
\* (#[serde(skip_serializing_if = "Option::is_none")]).
WithOpt(rec, k, o) ==
    IF IsSome(o)
    THEN [x \in DOMAIN rec \cup {k} |-> IF x = k THEN JStr(o[1]) ELSE rec[x]]
    ELSE rec

(***************************************************************************)
(* std::fs.  A file is absent or holds contents under a permission mode;   *)
(* a newly created file gets the mode the umask gives it.  Every           *)
(* operation of a manager takes a fault: the call of that operation that   *)
(* creates, writes, removes or changes a file and fails (an operation      *)
(* returns at its first failed call).  Reading a file fails when the file  *)
(* is unreadable, and so does opening it for writing.                      *)
(***************************************************************************)
NoFile == [exists |-> FALSE, contents |-> None, mode |-> "none"]
UmaskMode == "0644"
OwnerOnly == "0600"
Unreadable == "0000"

\* Whether the owner can read, and can open for writing, the file.
Readable(f) == f.mode # Unreadable
Writable(f) == ~f.exists \/ f.mode # Unreadable

Faults == {"none", "mkdir", "write_denied", "write_partial", "chmod", "remove"}

\* fs::write that completes.
Written(f, data) ==
    [exists |-> TRUE, contents |-> data,
     mode |-> IF f.exists THEN f.mode ELSE UmaskMode]

\* fs::set_permissions(path, Permissions::from_mode(0o600))
SetPermissions(f) == [f EXCEPT !.mode = OwnerOnly]

Ok == [ok |-> TRUE, err |-> ""]
Err(msg) == [ok |-> FALSE, err |-> msg]

(***************************************************************************)
(* auth_preferences.rs: AuthPreferences and AuthPreferencesManager.        *)
(***************************************************************************)
DefaultPreferences ==
    [remember_me |-> FALSE,
     remember_password |-> FALSE,
     sign_in_automatically |-> TRUE,
     remembered_email |-> None,
     encrypted_password |-> None]

\* #[derive(Serialize)] #[serde(rename_all = "camelCase")]
PreferencesToJson(p) ==
    JObj([rememberMe |-> JBool(p.remember_me),
          rememberPassword |-> JBool(p.remember_password),
          signInAutomatically |-> JBool(p.sign_in_automatically),
          rememberedEmail |-> JOptStr(p.remembered_email),
          encryptedPassword |-> JOptStr(p.encrypted_password)])

\* #[derive(Deserialize)]: serde_json::from_str::<AuthPreferences>
PreferencesParses(j) ==
    /\ HasField(j, "rememberMe", "bool")
    /\ HasField(j, "rememberPassword", "bool")
    /\ HasField(j, "signInAutomatically", "bool")
    /\ HasOptStr(j, "rememberedEmail")
    /\ HasOptStr(j, "encryptedPassword")

PreferencesFromJson(j) ==
    [remember_me |-> j.v.rememberMe.v,
     remember_password |-> j.v.rememberPassword.v,
     sign_in_automatically |-> j.v.signInAutomatically.v,
     remembered_email |-> OptStrOf(j, "rememberedEmail"),
     encrypted_password |-> OptStrOf(j, "encryptedPassword")]

\* get_or_create_encryption_key: the result, and the key file it leaves.
\* new_key is what the generator returns, cut the number of bytes a write
\* that fails half way leaves in the file.
KeyErr(msg, kf) == [ok |-> FALSE, err |-> msg, key |-> None, file |-> kf]
KeyOk(k, kf) == [ok |-> TRUE, err |-> "", key |-> Some(k), file |-> kf]

\* A variant that writes a new key on every call.
GetOrCreateEncryptionKeyAlwaysNew(kf, new_key, cut, fault) ==
    KeyOk(new_key, SetPermissions(Written(kf, new_key)))

\* A variant that pads or truncates a key file of another length.
GetOrCreateEncryptionKeyPadding(kf, new_key, cut, fault) ==
    IF kf.exists /\ Readable(kf)
    THEN KeyOk([i \in 1..KeyLen |->
                   IF i <= Len(kf.contents) THEN kf.contents[i] ELSE 0], kf)
    ELSE IF kf.exists THEN KeyErr("Failed to read encryption key", kf)
    ELSE KeyOk(new_key, SetPermissions(Written(kf, new_key)))

GetOrCreateEncryptionKey(kf, new_key, cut, fault) ==
    IF kf.exists
    THEN IF ~Readable(kf) THEN KeyErr("Failed to read encryption key", kf)
         ELSE IF Len(kf.contents) # KeyLen
              THEN KeyErr("Invalid encryption key size", kf)
              ELSE KeyOk(kf.contents, kf)
    ELSE IF fault = "write_denied"
         THEN KeyErr("Failed to write encryption key", kf)
         ELSE IF fault = "write_partial"
              THEN KeyErr("Failed to write encryption key",
                          Written(kf, SubSeq(new_key, 1, cut)))
         ELSE IF fault = "chmod"
              THEN KeyErr("Failed to set encryption key permissions",
                          Written(kf, new_key))
              ELSE KeyOk(new_key, SetPermissions(Written(kf, new_key)))

\* A variant that returns the ciphertext without the nonce in front.
EncryptPasswordWithoutNonce(kf, password, new_key, cut, nonce_bytes, fault) ==
    LET got == GetOrCreateEncryptionKey(kf, new_key, cut, fault)
    IN  IF ~got.ok
        THEN [ok |-> FALSE, err |-> got.err, text |-> <<>>, got |-> got]
        ELSE [ok |-> TRUE, err |-> "",
              text |-> B64Encode(GcmSeal(got.key[1], nonce_bytes,
                                         AsBytes(password))),
              got |-> got]

\* A variant that uses one nonce for every call.
EncryptPasswordFixedNonce(kf, password, new_key, cut, nonce_bytes, fault) ==
    LET got == GetOrCreateEncryptionKey(kf, new_key, cut, fault)
    IN  IF ~got.ok
        THEN [ok |-> FALSE, err |-> got.err, text |-> <<>>, got |-> got]
        ELSE LET fixed == [i \in 1..NonceLen |-> 0]
                 ciphertext == GcmSeal(got.key[1], fixed, AsBytes(password))
             IN  [ok |-> TRUE, err |-> "",
                  text |-> B64Encode(fixed \o ciphertext), got |-> got]

\* encrypt_password: Result<String, String>, with the key provider's result.
EncryptPassword(kf, password, new_key, cut, nonce_bytes, fault) ==
    LET got == GetOrCreateEncryptionKey(kf, new_key, cut, fault)
    IN  IF ~got.ok
        THEN [ok |-> FALSE, err |-> got.err, text |-> <<>>, got |-> got]
        ELSE LET ciphertext == GcmSeal(got.key[1], nonce_bytes, AsBytes(password))
                 combined == nonce_bytes \o ciphertext
             IN  [ok |-> TRUE, err |-> "", text |-> B64Encode(combined),
                  got |-> got]

\* A variant that splits the decoded bytes after TagLen bytes.
DecryptPasswordSplitAtTag(kf, encrypted, new_key, cut, fault) ==
    LET got == GetOrCreateEncryptionKey(kf, new_key, cut, fault)
        combined == B64Decode(encrypted)
        Fail(msg) == [ok |-> FALSE, err |-> msg, s |-> <<>>, got |-> got]
    IN  IF ~got.ok THEN Fail(got.err)
        ELSE IF ~combined.ok THEN Fail("Failed to decode encrypted password")
        ELSE IF Len(combined.bytes) < TagLen
             THEN Fail("Invalid encrypted password format")
        ELSE LET plaintext == GcmOpen(got.key[1],
                                      SubSeq(combined.bytes, 1, NonceLen),
                                      SubSeq(combined.bytes, TagLen + 1,
                                             Len(combined.bytes)))
             IN  IF ~plaintext.ok THEN Fail("Decryption failed")
                 ELSE LET str == FromUtf8(plaintext.pt)
                      IN  IF ~str.ok
                          THEN Fail("Invalid UTF-8 in decrypted password")
                          ELSE [ok |-> TRUE, err |-> "", s |-> str.s,
                                got |-> got]

\* decrypt_password: Result<String, String>, with the key provider's result.
DecryptPassword(kf, encrypted, new_key, cut, fault) ==
    LET got == GetOrCreateEncryptionKey(kf, new_key, cut, fault)
        combined == B64Decode(encrypted)
        Fail(msg) == [ok |-> FALSE, err |-> msg, s |-> <<>>, got |-> got]
    IN  IF ~got.ok THEN Fail(got.err)
        ELSE IF ~combined.ok THEN Fail("Failed to decode encrypted password")
        ELSE IF Len(combined.bytes) < NonceLen
             THEN Fail("Invalid encrypted password format")
        ELSE LET nonce_bytes == SubSeq(combined.bytes, 1, NonceLen)
                 ciphertext == SubSeq(combined.bytes, NonceLen + 1,
                                      Len(combined.bytes))
                 plaintext == GcmOpen(got.key[1], nonce_bytes, ciphertext)
             IN  IF ~plaintext.ok THEN Fail("Decryption failed")
                 ELSE LET str == FromUtf8(plaintext.pt)
                      IN  IF ~str.ok
                          THEN Fail("Invalid UTF-8 in decrypted password")
                          ELSE [ok |-> TRUE, err |-> "", s |-> str.s,
                                got |-> got]

\* A variant that stores the record as it was passed in when it does not
\* encrypt.
PreferencesToStoreAsPassed(prefs, password, encrypted) ==
    IF IsSome(password) /\ prefs.remember_password
    THEN [prefs EXCEPT !.encrypted_password = Some(encrypted)]
    ELSE prefs

\* The record save_preferences stores (lines 74-86): `encrypted` is the
\* text encrypt_password returned, used only on the branch that calls it.
PreferencesToStore(prefs, password, encrypted) ==
    IF IsSome(password)
    THEN IF prefs.remember_password
         THEN [prefs EXCEPT !.encrypted_password = Some(encrypted)]
         ELSE [prefs EXCEPT !.encrypted_password = None]
    ELSE [prefs EXCEPT !.encrypted_password = None]

\* A variant that keeps the fields that did parse when the document as a
\* whole does not.
PreferencesLoadPartial(mem, f) ==
    IF ~f.exists THEN [res |-> Ok, mem |-> mem]
    ELSE IF ~Readable(f)
         THEN [res |-> Err("Failed to read auth preferences file"), mem |-> mem]
    ELSE IF ~IsSome(f.contents) \/ ~PreferencesParses(f.contents[1])
         THEN [res |-> Err("Failed to parse auth preferences"),
               mem |-> IF IsSome(f.contents)
                          /\ HasField(f.contents[1], "rememberMe", "bool")
                       THEN [mem EXCEPT
                                !.remember_me = f.contents[1].v.rememberMe.v]
                       ELSE mem]
         ELSE [res |-> Ok, mem |-> PreferencesFromJson(f.contents[1])]

\* load_from_disk of the preferences: the result and the record in memory.
PreferencesLoad(mem, f) ==
    IF ~f.exists THEN [res |-> Ok, mem |-> mem]
    ELSE IF ~Readable(f)
         THEN [res |-> Err("Failed to read auth preferences file"), mem |-> mem]
    ELSE IF ~IsSome(f.contents) \/ ~PreferencesParses(f.contents[1])
         THEN [res |-> Err("Failed to parse auth preferences"), mem |-> mem]
         ELSE [res |-> Ok, mem |-> PreferencesFromJson(f.contents[1])]

\* A variant that sets the permissions only on a file it has created.
PreferencesSaveChmodOnCreate(mem, f, fault) ==
    LET json == PreferencesToJson(mem)
    IN  IF fault = "mkdir"
        THEN [res |-> Err("Failed to create storage directory"), file |-> f]
        ELSE IF fault = "write_denied" \/ ~Writable(f)
             THEN [res |-> Err("Failed to write auth preferences file"),
                   file |-> f]
        ELSE IF fault = "write_partial"
             THEN [res |-> Err("Failed to write auth preferences file"),
                   file |-> Written(f, None)]
        ELSE IF f.exists
             THEN [res |-> Ok, file |-> Written(f, Some(json))]
        ELSE IF fault = "chmod"
             THEN [res |-> Err("Failed to set preferences file permissions"),
                   file |-> Written(f, Some(json))]
             ELSE [res |-> Ok, file |-> SetPermissions(Written(f, Some(json)))]

\* save_to_disk of the preferences: the result and the file it leaves.
PreferencesSave(mem, f, fault) ==
    LET json == PreferencesToJson(mem)
    IN  IF fault = "mkdir"
        THEN [res |-> Err("Failed to create storage directory"), file |-> f]
        ELSE IF fault = "write_denied" \/ ~Writable(f)
             THEN [res |-> Err("Failed to write auth preferences file"),
                   file |-> f]
        ELSE IF fault = "write_partial"
             THEN [res |-> Err("Failed to write auth preferences file"),
                   file |-> Written(f, None)]
        ELSE IF fault = "chmod"
             THEN [res |-> Err("Failed to set preferences file permissions"),
                   file |-> Written(f, Some(json))]
             ELSE [res |-> Ok, file |-> SetPermissions(Written(f, Some(json)))]

(***************************************************************************)
(* auth.rs: AuthUser, AuthData and AuthManager.                            *)
(***************************************************************************)
\* #[serde(rename_all = "camelCase")], the three options skipped when None.
AuthUserToJson(u) ==
    JObj(WithOpt(WithOpt(WithOpt(
            [id |-> JStr(u.id),
             email |-> JStr(u.email),
             username |-> JStr(u.username),
             displayName |-> JStr(u.display_name)],
            "personalMessage", u.personal_message),
            "displayPictureUrl", u.display_picture_url),
            "presenceStatus", u.presence_status))

AuthUserParses(j) ==
    /\ HasField(j, "id", "str")
    /\ HasField(j, "email", "str")
    /\ HasField(j, "username", "str")
    /\ HasField(j, "displayName", "str")
    /\ HasOptStr(j, "personalMessage")
    /\ HasOptStr(j, "displayPictureUrl")
    /\ HasOptStr(j, "presenceStatus")

AuthUserFromJson(j) ==
    [id |-> j.v["id"].v,
     email |-> j.v["email"].v,
     username |-> j.v["username"].v,
     display_name |-> j.v["displayName"].v,
     personal_message |-> OptStrOf(j, "personalMessage"),
     display_picture_url |-> OptStrOf(j, "displayPictureUrl"),
     presence_status |-> OptStrOf(j, "presenceStatus")]

\* AuthData carries no rename_all: its keys are the field names.
\* A variant that writes the refresh token under a camelCase key.
AuthDataToJsonCamelCase(d) ==
    JObj([user |-> AuthUserToJson(d.user),
          token |-> JStr(d.token),
          refreshToken |-> JStr(d.refresh_token)])

AuthDataToJson(d) ==
    JObj([user |-> AuthUserToJson(d.user),
          token |-> JStr(d.token),
          refresh_token |-> JStr(d.refresh_token)])

AuthDataParses(j) ==
    /\ HasKey(j, "user")
    /\ AuthUserParses(j.v["user"])
    /\ HasField(j, "token", "str")
    /\ HasField(j, "refresh_token", "str")

AuthDataFromJson(j) ==
    [user |-> AuthUserFromJson(j.v["user"]),
     token |-> j.v["token"].v,
     refresh_token |-> j.v["refresh_token"].v]

\* AuthManager::load_from_disk
AuthLoad(mem, f) ==
    IF ~f.exists THEN [res |-> Ok, mem |-> mem]
    ELSE IF ~Readable(f)
         THEN [res |-> Err("Failed to read auth data file"), mem |-> mem]
    ELSE IF ~IsSome(f.contents) \/ ~AuthDataParses(f.contents[1])
         THEN [res |-> Err("Failed to parse auth data"), mem |-> mem]
         ELSE [res |-> Ok, mem |-> Some(AuthDataFromJson(f.contents[1]))]

\* A variant that writes a null document when there is no session.
AuthSaveWritesNull(mem, f, fault) ==
    IF fault = "mkdir"
    THEN [res |-> Err("Failed to create storage directory"), file |-> f]
    ELSE IF fault = "write_denied" \/ ~Writable(f)
         THEN [res |-> Err("Failed to write auth data file"), file |-> f]
    ELSE IF fault = "write_partial"
         THEN [res |-> Err("Failed to write auth data file"),
               file |-> Written(f, None)]
         ELSE [res |-> Ok,
               file |-> Written(f, Some(IF IsSome(mem)
                                        THEN AuthDataToJson(mem[1])
                                        ELSE JNull))]

\* AuthManager::save_to_disk
AuthSave(mem, f, fault) ==
    IF IsSome(mem)
    THEN IF fault = "mkdir"
         THEN [res |-> Err("Failed to create storage directory"), file |-> f]
         ELSE IF fault = "write_denied" \/ ~Writable(f)
              THEN [res |-> Err("Failed to write auth data file"), file |-> f]
         ELSE IF fault = "write_partial"
              THEN [res |-> Err("Failed to write auth data file"),
                    file |-> Written(f, None)]
              ELSE [res |-> Ok,
                    file |-> Written(f, Some(AuthDataToJson(mem[1])))]
    ELSE IF f.exists
         THEN IF fault = "remove"
              THEN [res |-> Err("Failed to remove auth data file"), file |-> f]
              ELSE [res |-> Ok, file |-> NoFile]
         ELSE [res |-> Ok, file |-> f]

(***************************************************************************)
(* settings.rs: AppSettings and SettingsManager.                           *)
(***************************************************************************)
default_settings ==
    [notifications |-> [enabled |-> TRUE, sound_enabled |-> TRUE,
                        sound_volume |-> 80, desktop_alerts |-> TRUE],
     startup |-> [auto_launch |-> FALSE, start_minimized |-> FALSE],
     files |-> [download_location |-> "", auto_accept_from |-> <<>>]]

SettingsToJson(x) ==
    JObj([notifications |->
              JObj([enabled |-> JBool(x.notifications.enabled),
                    soundEnabled |-> JBool(x.notifications.sound_enabled),
                    soundVolume |-> JNum(x.notifications.sound_volume),
                    desktopAlerts |-> JBool(x.notifications.desktop_alerts)]),
          startup |->
              JObj([autoLaunch |-> JBool(x.startup.auto_launch),
                    startMinimized |-> JBool(x.startup.start_minimized)]),
          files |->
              JObj([downloadLocation |-> JStr(x.files.download_location),
                    autoAcceptFrom |->
                        JArr([i \in 1..Len(x.files.auto_accept_from) |->
                                 JStr(x.files.auto_accept_from[i])])])])

\* sound_volume is a u8: a number outside 0..255 does not parse.
SettingsParses(j) ==
    /\ HasField(j, "notifications", "obj")
    /\ LET n == j.v["notifications"]
       IN  /\ HasField(n, "enabled", "bool")
           /\ HasField(n, "soundEnabled", "bool")
           /\ HasField(n, "soundVolume", "num")
           /\ n.v["soundVolume"].v \in Byte
           /\ HasField(n, "desktopAlerts", "bool")
    /\ HasField(j, "startup", "obj")
    /\ LET u == j.v["startup"]
       IN  /\ HasField(u, "autoLaunch", "bool")
           /\ HasField(u, "startMinimized", "bool")
    /\ HasField(j, "files", "obj")
    /\ LET f == j.v["files"]
       IN  /\ HasField(f, "downloadLocation", "str")
           /\ HasField(f, "autoAcceptFrom", "arr")
           /\ \A i \in 1..Len(f.v["autoAcceptFrom"].v) :
                 IsJ(f.v["autoAcceptFrom"].v[i], "str")

SettingsFromJson(j) ==
    LET n == j.v["notifications"].v
        u == j.v["startup"].v
        f == j.v["files"].v
    IN  [notifications |-> [enabled |-> n["enabled"].v,
                            sound_enabled |-> n["soundEnabled"].v,
                            sound_volume |-> n["soundVolume"].v,
                            desktop_alerts |-> n["desktopAlerts"].v],
         startup |-> [auto_launch |-> u["autoLaunch"].v,
                      start_minimized |-> u["startMinimized"].v],
         files |-> [download_location |-> f["downloadLocation"].v,
                    auto_accept_from |->
                        [i \in 1..Len(f["autoAcceptFrom"].v) |->
                            f["autoAcceptFrom"].v[i].v]]]

\* A variant that reads the file without asking whether it exists.
SettingsLoadUnconditional(mem, f) ==
    IF ~f.exists \/ ~Readable(f)
    THEN [res |-> Err("Failed to read settings file"), mem |-> mem]
    ELSE IF ~IsSome(f.contents) \/ ~SettingsParses(f.contents[1])
         THEN [res |-> Err("Failed to parse settings"), mem |-> mem]
         ELSE [res |-> Ok, mem |-> SettingsFromJson(f.contents[1])]

\* SettingsManager::load_from_disk
SettingsLoad(mem, f) ==
    IF ~f.exists THEN [res |-> Ok, mem |-> mem]
    ELSE IF ~Readable(f)
         THEN [res |-> Err("Failed to read settings file"), mem |-> mem]
    ELSE IF ~IsSome(f.contents) \/ ~SettingsParses(f.contents[1])
         THEN [res |-> Err("Failed to parse settings"), mem |-> mem]
         ELSE [res |-> Ok, mem |-> SettingsFromJson(f.contents[1])]

\* SettingsManager::save_to_disk: no permissions are set on this file.
SettingsSave(mem, f, fault) ==
    IF fault = "mkdir"
    THEN [res |-> Err("Failed to create storage directory"), file |-> f]
    ELSE IF fault = "write_denied" \/ ~Writable(f)
         THEN [res |-> Err("Failed to write settings file"), file |-> f]
    ELSE IF fault = "write_partial"
         THEN [res |-> Err("Failed to write settings file"),
               file |-> Written(f, None)]
         ELSE [res |-> Ok, file |-> Written(f, Some(SettingsToJson(mem)))]

(***************************************************************************)
(* The state.  The three managers share nothing: each has its own Mutex    *)
(* and its own file (auth.rs:33-34, auth_preferences.rs:38-40,             *)
(* settings.rs:64-65), so a run of the program is a free interleaving of   *)
(* three independent runs.  A behaviour of the model follows one of them:  *)
(* `store` names the manager whose operations it calls, and the other two  *)
(* stay as constructed on a path with no file.                             *)
(***************************************************************************)
VARIABLES
    store,          \* the manager this behaviour exercises
    auth_data,      \* AuthManager.auth_data: Option<AuthData>
    auth_file,      \* the file at AuthManager.storage_path
    settings,       \* SettingsManager.settings
    settings_file,  \* the file at SettingsManager.storage_path
    preferences,    \* AuthPreferencesManager.preferences
    prefs_file,     \* the file at AuthPreferencesManager.storage_path
    key_file,       \* the file at AuthPreferencesManager.encryption_key_path
    cipher,         \* encrypt_password / decrypt_password called on their own
    last,           \* the last call: its name, arguments and result
    key_ret,        \* the result of the last get_or_create_encryption_key
    issued,         \* the first key returned since the key file was changed
                    \* from outside
    history,        \* where the run stands in the remember / forget scenario
    faults,         \* the number of file system calls that have failed
    emitted,        \* the events the last command passed to app.emit
    lock,           \* the thread that holds the Mutex of the record, if any
    threads         \* the calls in progress on the manager, by thread

vars == <<store, auth_data, auth_file, settings, settings_file, preferences,
          prefs_file, key_file, cipher, last, key_ret, issued, history, faults,
          emitted, lock, threads>>

Stores == {"auth", "preferences", "settings"}

(***************************************************************************)
(* The values the operations are called with.                              *)
(***************************************************************************)
Ann == [id |-> "u1", email |-> "ann@example.org", username |-> "ann",
        display_name |-> "Ann", personal_message |-> None,
        display_picture_url |-> None, presence_status |-> None]
Bob == [id |-> "u2", email |-> "bob@example.org", username |-> "bob",
        display_name |-> "Bob", personal_message |-> Some("brb"),
        display_picture_url |-> None, presence_status |-> Some("away")]
Users == {Ann, Bob}
Tokens == {[token |-> "t1", refresh_token |-> "r1"],
           [token |-> "t2", refresh_token |-> "r2"]}

NotificationInputs ==
    {default_settings.notifications,
     [enabled |-> FALSE, sound_enabled |-> TRUE, sound_volume |-> 0,
      desktop_alerts |-> FALSE]}
StartupInputs ==
    {default_settings.startup, [auto_launch |-> TRUE, start_minimized |-> TRUE]}
FileInputs ==
    {default_settings.files,
     [download_location |-> "/home/ann/Downloads",
      auto_accept_from |-> <<"u2", "u3">>]}

\* "", "S" and "e-acute": 0, 1 and 2 bytes of UTF-8, which with the nonce
\* and the tag give the three paddings of base64.
Passwords == {<<>>, <<83>>, <<233>>}
\* The passwords save_preferences is called with.
SavedPasswords == {<<83>>, <<233>>}

\* A text an earlier get_preferences returned, carried back by the caller.
StaleText ==
    B64Encode(NonceOf(1) \o GcmSeal(KeyOf(1), NonceOf(1), AsBytes(<<83>>)))

\* The records save_preferences is called with: the defaults, a record that
\* asks to remember the password, the same email with the password no
\* longer remembered and a stale text carried along, and a record with no
\* email that carries a stale text.
PreferenceInputs ==
    {DefaultPreferences,
     [remember_me |-> TRUE, remember_password |-> TRUE,
      sign_in_automatically |-> FALSE,
      remembered_email |-> Some("ann@example.org"),
      encrypted_password |-> None],
     [remember_me |-> TRUE, remember_password |-> FALSE,
      sign_in_automatically |-> FALSE,
      remembered_email |-> Some("ann@example.org"),
      encrypted_password |-> Some(StaleText)],
     [remember_me |-> FALSE, remember_password |-> TRUE,
      sign_in_automatically |-> TRUE,
      remembered_email |-> None,
      encrypted_password |-> Some(StaleText)]}

(***************************************************************************)
(* The files a manager can find when it is constructed: none, one that is  *)
(* not JSON, JSON of another shape, an unreadable one, and records written *)
(* by an earlier run or by another program.                                *)
(***************************************************************************)
JsonFile(doc, mode) == [exists |-> TRUE, contents |-> Some(doc), mode |-> mode]
NotJsonFile == [exists |-> TRUE, contents |-> None, mode |-> UmaskMode]

InitialAuthFiles ==
    {NoFile, NotJsonFile,
     JsonFile(JNull, UmaskMode),
     JsonFile(JObj([user |-> AuthUserToJson(Ann), token |-> JStr("t1")]),
              UmaskMode),
     JsonFile(AuthDataToJson([user |-> Bob, token |-> "t0",
                              refresh_token |-> "r0"]), UmaskMode),
     JsonFile(AuthDataToJson([user |-> Ann, token |-> "t1",
                              refresh_token |-> "r1"]), Unreadable)}

InitialSettingsFiles ==
    {NoFile, NotJsonFile,
     JsonFile(JObj([notifications |-> JNull]), UmaskMode),
     JsonFile(SettingsToJson(
                  [default_settings EXCEPT !.notifications.sound_volume = 300]),
              UmaskMode),
     JsonFile(SettingsToJson(
                  [default_settings EXCEPT !.startup.auto_launch = TRUE]),
              UmaskMode),
     JsonFile(SettingsToJson(default_settings), Unreadable)}

\* The key files: none, a key, and files of 31 and of 33 bytes, of no byte
\* and one that cannot be read.
KeyFileOf(bytes, mode) == [exists |-> TRUE, contents |-> bytes, mode |-> mode]
KeyFiles ==
    {NoFile}
    \cup {KeyFileOf(k, OwnerOnly) : k \in GenKeys}
    \cup {KeyFileOf(SubSeq(KeyOf(1), 1, KeyLen - 1), OwnerOnly),
          KeyFileOf(KeyOf(1) \o <<0>>, OwnerOnly),
          KeyFileOf(<<>>, UmaskMode),
          KeyFileOf(KeyOf(1), Unreadable)}

\* The key files a preferences manager is constructed beside.
InitialKeyFiles ==
    {NoFile,
     KeyFileOf(KeyOf(1), OwnerOnly),
     KeyFileOf(SubSeq(KeyOf(1), 1, KeyLen - 1), OwnerOnly),
     KeyFileOf(KeyOf(1), Unreadable)}

\* Texts found in the encryptedPassword of an existing file: sealed under
\* the first key, not base64, shorter than a nonce, a nonce and nothing
\* else, and a sealed byte string that is not UTF-8.
StoredTexts ==
    {StaleText,
     <<BadChar, 0, 0, 0>>,
     B64Encode(<<1, 2, 3>>),
     B64Encode(NonceOf(1)),
     B64Encode(NonceOf(2) \o GcmSeal(KeyOf(1), NonceOf(2), <<255>>))}

InitialPrefsFiles ==
    {NoFile, NotJsonFile,
     JsonFile(JObj([rememberMe |-> JBool(TRUE)]), OwnerOnly),
     JsonFile(JObj([rememberMe |-> JBool(TRUE),
                    rememberPassword |-> JBool(FALSE),
                    signInAutomatically |-> JBool(FALSE)]), UmaskMode),
     JsonFile(PreferencesToJson(DefaultPreferences), Unreadable),
     JsonFile(PreferencesToJson(
                  [DefaultPreferences EXCEPT
                      !.remembered_email = Some("bob@example.org"),
                      !.encrypted_password = Some(StaleText)]), OwnerOnly)}
    \cup {JsonFile(PreferencesToJson(
                       [remember_me |-> TRUE, remember_password |-> TRUE,
                        sign_in_automatically |-> TRUE,
                        remembered_email |-> Some("bob@example.org"),
                        encrypted_password |-> Some(t)]), OwnerOnly) :
             t \in StoredTexts}

(***************************************************************************)
(* What the model records of a call.                                       *)
(***************************************************************************)
NoCreds == [email |-> None, password |-> None]
\* remember and password: the remember_password and the password argument
\* of save_preferences; creds: what get_remembered_credentials returned.
Call(op, res) ==
    [op |-> op, ok |-> res.ok, err |-> res.err,
     remember |-> FALSE, password |-> None, creds |-> NoCreds]

NoKeyCall == [called |-> FALSE, ok |-> FALSE, err |-> "", key |-> None]
KeyRet(got) == [called |-> TRUE, ok |-> got.ok, err |-> got.err, key |-> got.key]
Issue(got) == IF got.ok /\ issued = None THEN got.key ELSE issued

NoHistory ==
    [phase |-> "none", email |-> None, password |-> None, intact |-> FALSE]
\* Any call but a save that encrypts and get_remembered_credentials: it ends
\* the "remembered" phase, and in the "forgotten" phase the stored email is
\* no longer known to be the one of the scenario.
Disturbed(h) ==
    IF h.phase = "forgotten" THEN [h EXCEPT !.intact = FALSE] ELSE NoHistory

NoOut == [done |-> FALSE, ok |-> FALSE, err |-> "", s |-> <<>>]
\* nonce: the nonce the last encrypt_password drew (line 155); prev: the
\* text of the call before it, when the two calls followed each other with
\* the key file left alone.
NoCipher ==
    [plain |-> None, sealed |-> None, text |-> None, out |-> NoOut,
     kf |-> NoFile, nonce |-> None, prev |-> None]

\* The values a choice ranges over when the call reads it, one of them
\* when it does not.
Pick(read, S) == IF read THEN S ELSE {CHOOSE x \in S : TRUE}

\* A call that meets the fault counts it.
Cost(fault) == IF fault = "none" THEN 0 ELSE 1

PartialCuts == {0, KeyLen \div 2}
KeyFaults == {"none", "write_denied", "write_partial", "chmod"}
JsonFaults == {"none", "mkdir", "write_denied", "write_partial"}
PrefsFaults == JsonFaults \cup {"chmod"}
AuthFaults == JsonFaults \cup {"remove"}

\* The threads that call a manager at the same time, and a thread that is
\* in no call.
Threads == {1, 2}
\* pc: where the call stands; op: its name; json: the document its save has
\* serialized; arg: the value it stores; key: the key its key provider
\* returned.
Idle == [pc |-> "idle", op |-> "", json |-> JNull, arg |-> None, key |-> None]
NoCalls == [t \in Threads |-> Idle]

\* A call that is a plain method call or a command without an event: it
\* emits nothing, and it runs alone.
Quiet == emitted' = <<>> /\ UNCHANGED <<lock, threads>>

\* app.emit(event, payload); the result is dropped (let _ =), so the
\* command does not learn whether the event was delivered.
Emit(event, payload, delivered) ==
    [event |-> event, payload |-> payload, delivered |-> delivered]

(***************************************************************************)
(* Construction: every manager starts from its default record and loads    *)
(* its file; an error of the load is logged and the manager is returned.   *)
(***************************************************************************)
Init ==
    /\ store \in Stores
    /\ auth_file \in (IF store = "auth" THEN InitialAuthFiles ELSE {NoFile})
    /\ settings_file \in
           (IF store = "settings" THEN InitialSettingsFiles ELSE {NoFile})
    /\ prefs_file \in
           (IF store = "preferences" THEN InitialPrefsFiles ELSE {NoFile})
    /\ key_file \in
           (IF store = "preferences" THEN InitialKeyFiles ELSE {NoFile})
    /\ auth_data = AuthLoad(None, auth_file).mem
    /\ settings = SettingsLoad(default_settings, settings_file).mem
    /\ preferences = PreferencesLoad(DefaultPreferences, prefs_file).mem
    /\ last = Call("new",
                   IF store = "auth" THEN AuthLoad(None, auth_file).res
                   ELSE IF store = "settings"
                        THEN SettingsLoad(default_settings, settings_file).res
                        ELSE PreferencesLoad(DefaultPreferences, prefs_file).res)
    /\ cipher = NoCipher
    /\ key_ret = NoKeyCall
    /\ issued = None
    /\ history = NoHistory
    /\ faults = 0
    /\ emitted = <<>>
    /\ lock = None
    /\ threads = NoCalls

\* AuthManager::new on the same path (the application is started again).
AuthManagerNew ==
    /\ store = "auth"
    /\ LET loaded == AuthLoad(None, auth_file)
       IN  /\ auth_data' = loaded.mem
           /\ last' = Call("new", loaded.res)
    /\ UNCHANGED <<store, auth_file, settings, settings_file, preferences,
                   prefs_file, key_file, cipher, key_ret, issued, history, faults>>

SettingsManagerNew ==
    /\ store = "settings"
    /\ LET loaded == SettingsLoad(default_settings, settings_file)
       IN  /\ settings' = loaded.mem
           /\ last' = Call("new", loaded.res)
    /\ UNCHANGED <<store, auth_data, auth_file, settings_file, preferences,
                   prefs_file, key_file, cipher, key_ret, issued, history, faults>>

AuthPreferencesManagerNew ==
    /\ store = "preferences"
    /\ LET loaded == PreferencesLoad(DefaultPreferences, prefs_file)
       IN  /\ preferences' = loaded.mem
           /\ last' = Call("new", loaded.res)
    /\ history' = Disturbed(history)
    /\ UNCHANGED <<store, auth_data, auth_file, settings, settings_file,
                   prefs_file, key_file, cipher, key_ret, issued, faults>>

(***************************************************************************)
(* AuthManager                                                             *)
(***************************************************************************)
set_auth(user, token, refresh_token, fault) ==
    /\ store = "auth"
    /\ faults + Cost(fault) <= MaxFaults
    /\ faults' = faults + Cost(fault)
    /\ LET data == Some([user |-> user, token |-> token,
                         refresh_token |-> refresh_token])
           saved == AuthSave(data, auth_file, fault)
       IN  /\ auth_data' = data
           /\ auth_file' = saved.file
           /\ last' = Call("set_auth", saved.res)
    /\ UNCHANGED <<store, settings, settings_file, preferences, prefs_file,
                   key_file, cipher, key_ret, issued, history>>

\* A variant that signs the user in when there is no session.
update_user_or_insert(user_updates, fault) ==
    /\ store = "auth"
    /\ faults + Cost(fault) <= MaxFaults
    /\ faults' = faults + Cost(fault)
    /\ LET data == IF IsSome(auth_data)
                   THEN Some([auth_data[1] EXCEPT !.user = user_updates])
                   ELSE Some([user |-> user_updates, token |-> "",
                              refresh_token |-> ""])
           saved == AuthSave(data, auth_file, fault)
       IN  /\ auth_data' = data
           /\ auth_file' = saved.file
           /\ last' = Call("update_user", saved.res)
    /\ UNCHANGED <<store, settings, settings_file, preferences, prefs_file,
                   key_file, cipher, key_ret, issued, history>>

update_user(user_updates, fault) ==
    /\ store = "auth"
    /\ faults + Cost(fault) <= MaxFaults
    /\ faults' = faults + Cost(fault)
    /\ IF IsSome(auth_data)
       THEN LET data == Some([auth_data[1] EXCEPT !.user = user_updates])
                saved == AuthSave(data, auth_file, fault)
            IN  /\ auth_data' = data
                /\ auth_file' = saved.file
                /\ last' = Call("update_user", saved.res)
       ELSE /\ last' = Call("update_user",
                            Err("No user is currently authenticated"))
            /\ UNCHANGED <<auth_data, auth_file>>
    /\ UNCHANGED <<store, settings, settings_file, preferences, prefs_file,
                   key_file, cipher, key_ret, issued, history>>

clear_auth(fault) ==
    /\ store = "auth"
    /\ faults + Cost(fault) <= MaxFaults
    /\ faults' = faults + Cost(fault)
    /\ LET saved == AuthSave(None, auth_file, fault)
       IN  /\ auth_data' = None
           /\ auth_file' = saved.file
           /\ last' = Call("clear_auth", saved.res)
    /\ UNCHANGED <<store, settings, settings_file, preferences, prefs_file,
                   key_file, cipher, key_ret, issued, history>>

(***************************************************************************)
(* SettingsManager                                                         *)
(***************************************************************************)
\* The four setters: store the new record, then save_to_disk.
SettingsStore(op, record, fault) ==
    /\ store = "settings"
    /\ faults + Cost(fault) <= MaxFaults
    /\ faults' = faults + Cost(fault)
    /\ LET saved == SettingsSave(record, settings_file, fault)
       IN  /\ settings' = record
           /\ settings_file' = saved.file
           /\ last' = Call(op, saved.res)
    /\ UNCHANGED <<store, auth_data, auth_file, preferences, prefs_file,
                   key_file, cipher, key_ret, issued, history>>

update_notification_settings(updates, fault) ==
    SettingsStore("update_notification_settings",
                  [settings EXCEPT !.notifications = updates], fault)

update_startup_settings(updates, fault) ==
    SettingsStore("update_startup_settings",
                  [settings EXCEPT !.startup = updates], fault)

update_file_settings(updates, fault) ==
    SettingsStore("update_file_settings",
                  [settings EXCEPT !.files = updates], fault)

reset_settings(fault) ==
    SettingsStore("reset_settings", default_settings, fault)

(***************************************************************************)
(* AuthPreferencesManager                                                  *)
(***************************************************************************)
\* Where save_preferences(prefs, password) with result ok leaves the
\* remember / forget scenario.
HistoryAfterSave(h, prefs, password, ok) ==
    IF IsSome(password) /\ prefs.remember_password
    THEN IF ok
         THEN [phase |-> "remembered", email |-> prefs.remembered_email,
               password |-> password, intact |-> TRUE]
         ELSE NoHistory
    ELSE IF /\ ok
            /\ ~prefs.remember_password
            /\ h.phase = "remembered"
            /\ prefs.remembered_email = h.email
         THEN [phase |-> "forgotten", email |-> h.email, password |-> None,
               intact |-> TRUE]
         ELSE Disturbed(h)

\* A variant that stores the record without a text when it cannot encrypt.
save_preferences_forgetting(prefs, password, new_key, cut, nonce_bytes, key_fault, fault) ==
    /\ store = "preferences"
    /\ faults + Cost(key_fault) + Cost(fault) <= MaxFaults
    /\ faults' = faults + Cost(key_fault) + Cost(fault)
    /\ LET encrypts == IsSome(password) /\ prefs.remember_password
           enc == EncryptPassword(key_file, password[1], new_key, cut,
                                  nonce_bytes, key_fault)
       IN  IF encrypts /\ ~enc.ok
           THEN /\ last' = [Call("save_preferences", Err(enc.err)) EXCEPT
                               !.remember = prefs.remember_password,
                               !.password = password]
                /\ key_file' = enc.got.file
                /\ key_ret' = KeyRet(enc.got)
                /\ issued' = Issue(enc.got)
                /\ history' = HistoryAfterSave(history, prefs, password, FALSE)
                /\ preferences' = [prefs EXCEPT !.encrypted_password = None]
                /\ UNCHANGED prefs_file
           ELSE LET stored == PreferencesToStore(
                                  prefs, password,
                                  IF encrypts THEN enc.text ELSE <<>>)
                    saved == PreferencesSave(stored, prefs_file, fault)
                IN  /\ preferences' = stored
                    /\ prefs_file' = saved.file
                    /\ last' = [Call("save_preferences", saved.res) EXCEPT
                                   !.remember = prefs.remember_password,
                               !.password = password]
                    /\ key_file' = IF encrypts THEN enc.got.file ELSE key_file
                    /\ key_ret' = IF encrypts THEN KeyRet(enc.got) ELSE key_ret
                    /\ issued' = IF encrypts THEN Issue(enc.got) ELSE issued
                    /\ history' = HistoryAfterSave(history, prefs, password,
                                                   saved.res.ok)
    /\ UNCHANGED <<store, auth_data, auth_file, settings, settings_file,
                   cipher>>

save_preferences(prefs, password, new_key, cut, nonce_bytes, key_fault, fault) ==
    /\ store = "preferences"
    /\ faults + Cost(key_fault) + Cost(fault) <= MaxFaults
    /\ faults' = faults + Cost(key_fault) + Cost(fault)
    /\ LET encrypts == IsSome(password) /\ prefs.remember_password
           enc == EncryptPassword(key_file, password[1], new_key, cut,
                                  nonce_bytes, key_fault)
       IN  IF encrypts /\ ~enc.ok
           THEN /\ last' = [Call("save_preferences", Err(enc.err)) EXCEPT
                               !.remember = prefs.remember_password,
                               !.password = password]
                /\ key_file' = enc.got.file
                /\ key_ret' = KeyRet(enc.got)
                /\ issued' = Issue(enc.got)
                /\ history' = HistoryAfterSave(history, prefs, password, FALSE)
                /\ UNCHANGED <<preferences, prefs_file>>
           ELSE LET stored == PreferencesToStore(
                                  prefs, password,
                                  IF encrypts THEN enc.text ELSE <<>>)
                    saved == PreferencesSave(stored, prefs_file, fault)
                IN  /\ preferences' = stored
                    /\ prefs_file' = saved.file
                    /\ last' = [Call("save_preferences", saved.res) EXCEPT
                                   !.remember = prefs.remember_password,
                               !.password = password]
                    /\ key_file' = IF encrypts THEN enc.got.file ELSE key_file
                    /\ key_ret' = IF encrypts THEN KeyRet(enc.got) ELSE key_ret
                    /\ issued' = IF encrypts THEN Issue(enc.got) ELSE issued
                    /\ history' = HistoryAfterSave(history, prefs, password,
                                                   saved.res.ok)
    /\ UNCHANGED <<store, auth_data, auth_file, settings, settings_file,
                   cipher>>

clear_preferences(fault) ==
    /\ store = "preferences"
    /\ faults + Cost(fault) <= MaxFaults
    /\ faults' = faults + Cost(fault)
    /\ LET saved == PreferencesSave(DefaultPreferences, prefs_file, fault)
       IN  /\ preferences' = DefaultPreferences
           /\ prefs_file' = saved.file
           /\ last' = Call("clear_preferences", saved.res)
    /\ history' = Disturbed(history)
    /\ UNCHANGED <<store, auth_data, auth_file, settings, settings_file,
                   key_file, cipher, key_ret, issued>>

get_remembered_credentials(new_key, cut, key_fault) ==
    /\ store = "preferences"
    /\ faults + Cost(key_fault) <= MaxFaults
    /\ faults' = faults + Cost(key_fault)
    /\ IF IsSome(preferences.encrypted_password)
       THEN LET dec == DecryptPassword(key_file,
                                       preferences.encrypted_password[1],
                                       new_key, cut, key_fault)
            IN  /\ last' = IF dec.ok
                           THEN [Call("get_remembered_credentials", Ok) EXCEPT
                                    !.creds =
                                        [email |-> preferences.remembered_email,
                                         password |-> Some(dec.s)]]
                           ELSE Call("get_remembered_credentials", Err(dec.err))
                /\ key_file' = dec.got.file
                /\ key_ret' = KeyRet(dec.got)
                /\ issued' = Issue(dec.got)
       ELSE /\ last' = [Call("get_remembered_credentials", Ok) EXCEPT
                           !.creds = [email |-> preferences.remembered_email,
                                      password |-> None]]
            /\ UNCHANGED <<key_file, key_ret, issued>>
    /\ UNCHANGED <<store, auth_data, auth_file, settings, settings_file,
                   preferences, prefs_file, cipher, history>>

\* The getters of the session (auth.rs 54-79, 113-115).
get_user == IF IsSome(auth_data) THEN Some(auth_data[1].user) ELSE None
get_token == IF IsSome(auth_data) THEN Some(auth_data[1].token) ELSE None
get_refresh_token ==
    IF IsSome(auth_data) THEN Some(auth_data[1].refresh_token) ELSE None
is_authenticated == IsSome(auth_data)

(***************************************************************************)
(* The commands that broadcast: each calls the manager and, when the call  *)
(* has returned Ok, emits one event (auth.rs 181-221, settings.rs 166-225, *)
(* and the same commands on AppState in lib.rs 139-193).                   *)
(***************************************************************************)
\* A variant that emits whatever the manager returned.
EmittedAlways(event, payload, delivered) ==
    /\ emitted' = <<Emit(event, payload, delivered)>>
    /\ UNCHANGED <<lock, threads>>

Emitted(event, payload, delivered) ==
    /\ emitted' = IF last'.ok THEN <<Emit(event, payload, delivered)>> ELSE <<>>
    /\ UNCHANGED <<lock, threads>>

command_set_auth(user, token, refresh_token, fault, delivered) ==
    /\ set_auth(user, token, refresh_token, fault)
    /\ Emitted("auth-changed", user, delivered)

command_update_user(user_updates, fault, delivered) ==
    /\ update_user(user_updates, fault)
    /\ Emitted("auth-changed", user_updates, delivered)

command_clear_auth(fault, delivered) ==
    /\ clear_auth(fault)
    /\ Emitted("auth-cleared", <<>>, delivered)

command_update_notification_settings(notifications, fault, delivered) ==
    /\ update_notification_settings(notifications, fault)
    /\ Emitted("settings-changed", notifications, delivered)

command_update_startup_settings(startup, fault, delivered) ==
    /\ update_startup_settings(startup, fault)
    /\ Emitted("settings-changed", startup, delivered)

command_update_file_settings(files, fault, delivered) ==
    /\ update_file_settings(files, fault)
    /\ Emitted("settings-changed", files, delivered)

\* The payload is what get_settings returns after the reset.
command_reset_settings(fault, delivered) ==
    /\ reset_settings(fault)
    /\ Emitted("settings-reset", settings', delivered)

(***************************************************************************)
(* The managers' operations on the records.                                *)
(***************************************************************************)
Next ==
    \/ AuthManagerNew /\ Quiet
    \/ SettingsManagerNew /\ Quiet
    \/ AuthPreferencesManagerNew /\ Quiet
    \/ \E user \in Users, t \in Tokens, fault \in AuthFaults,
          delivered \in BOOLEAN :
          command_set_auth(user, t.token, t.refresh_token, fault, delivered)
    \/ \E user \in Users, fault \in AuthFaults, delivered \in BOOLEAN :
          command_update_user(user, fault, delivered)
    \/ \E fault \in AuthFaults, delivered \in BOOLEAN :
          command_clear_auth(fault, delivered)
    \/ \E updates \in NotificationInputs, fault \in JsonFaults,
          delivered \in BOOLEAN :
          command_update_notification_settings(updates, fault, delivered)
    \/ \E updates \in StartupInputs, fault \in JsonFaults,
          delivered \in BOOLEAN :
          command_update_startup_settings(updates, fault, delivered)
    \/ \E updates \in FileInputs, fault \in JsonFaults, delivered \in BOOLEAN :
          command_update_file_settings(updates, fault, delivered)
    \/ \E fault \in JsonFaults, delivered \in BOOLEAN :
          command_reset_settings(fault, delivered)
    \/ \E prefs \in PreferenceInputs, password \in {None} \cup {Some(p) : p \in SavedPasswords} :
          LET encrypts == IsSome(password) /\ prefs.remember_password
              creates == encrypts /\ ~key_file.exists
          IN  \E new_key \in Pick(creates, GenKeys),
                 cut \in Pick(creates, PartialCuts),
                 key_fault \in Pick(creates, KeyFaults),
                 nonce_bytes \in Pick(encrypts, GenNonces),
                 fault \in PrefsFaults :
                 save_preferences(prefs, password, new_key, cut, nonce_bytes,
                                  key_fault, fault) /\ Quiet
    \/ \E fault \in PrefsFaults : clear_preferences(fault) /\ Quiet
    \/ LET creates == IsSome(preferences.encrypted_password) /\ ~key_file.exists
       IN  \E new_key \in Pick(creates, GenKeys),
              cut \in Pick(creates, PartialCuts),
              key_fault \in Pick(creates, KeyFaults) :
              get_remembered_credentials(new_key, cut, key_fault) /\ Quiet

Spec == Init /\ [][Next]_vars

(***************************************************************************)
(* The cipher and the key provider on their own: encrypt_password and      *)
(* decrypt_password called directly (as the tests of the module would),    *)
(* the stored text changed by one character, and the key file changed      *)
(* from outside the program.                                               *)
(***************************************************************************)
CipherOps == {"encrypt_password", "decrypt_password"}

InitCipher ==
    /\ store = "preferences"
    /\ auth_file = NoFile
    /\ settings_file = NoFile
    /\ prefs_file = NoFile
    /\ key_file \in KeyFiles
    /\ auth_data = None
    /\ settings = default_settings
    /\ preferences = DefaultPreferences
    /\ last = Call("new", Ok)
    /\ cipher = NoCipher
    /\ key_ret = NoKeyCall
    /\ issued = None
    /\ history = NoHistory
    /\ faults = 0
    /\ emitted = <<>>
    /\ lock = None
    /\ threads = NoCalls

encrypt_password(password, new_key, cut, nonce_bytes, key_fault) ==
    /\ faults + Cost(key_fault) <= MaxFaults
    /\ faults' = faults + Cost(key_fault)
    /\ LET enc == EncryptPassword(key_file, password, new_key, cut,
                                  nonce_bytes, key_fault)
           text == IF enc.ok THEN Some(enc.text) ELSE None
       IN  /\ cipher' = [plain |-> Some(password), sealed |-> text,
                         text |-> text, out |-> NoOut, kf |-> enc.got.file,
                         nonce |-> IF enc.ok THEN Some(nonce_bytes) ELSE None,
                         prev |-> IF /\ enc.ok
                                     /\ last.op = "encrypt_password"
                                     /\ enc.got.file = key_file
                                  THEN cipher.sealed ELSE None]
           /\ last' = Call("encrypt_password", [ok |-> enc.ok, err |-> enc.err])
           /\ key_file' = enc.got.file
           /\ key_ret' = KeyRet(enc.got)
           /\ issued' = Issue(enc.got)
    /\ UNCHANGED <<store, auth_data, auth_file, settings, settings_file,
                   preferences, prefs_file, history>>

decrypt_password(new_key, cut, key_fault) ==
    /\ IsSome(cipher.text)
    /\ faults + Cost(key_fault) <= MaxFaults
    /\ faults' = faults + Cost(key_fault)
    /\ LET dec == DecryptPassword(key_file, cipher.text[1], new_key, cut,
                                  key_fault)
       IN  /\ cipher' = [cipher EXCEPT
                            !.out = [done |-> TRUE, ok |-> dec.ok,
                                     err |-> dec.err, s |-> dec.s],
                            !.prev = None]
           /\ last' = Call("decrypt_password", [ok |-> dec.ok, err |-> dec.err])
           /\ key_file' = dec.got.file
           /\ key_ret' = KeyRet(dec.got)
           /\ issued' = Issue(dec.got)
    /\ UNCHANGED <<store, auth_data, auth_file, settings, settings_file,
                   preferences, prefs_file, history>>

\* One character of the text encrypt_password returned is replaced.
Tamper(i, c) ==
    /\ IsSome(cipher.sealed)
    /\ cipher.text = cipher.sealed
    /\ i \in 1..Len(cipher.text[1])
    /\ c # cipher.text[1][i]
    /\ cipher' = [cipher EXCEPT !.text = Some([cipher.text[1] EXCEPT ![i] = c]),
                                !.out = NoOut, !.prev = None]
    /\ last' = Call("tamper", Ok)
    /\ UNCHANGED <<store, auth_data, auth_file, settings, settings_file,
                   preferences, prefs_file, key_file, key_ret, issued, history,
                   faults>>

\* Something other than the program replaces, removes or protects the key
\* file.
ExternalKeyChange(kf) ==
    /\ kf # key_file
    /\ key_file' = kf
    /\ issued' = None
    /\ last' = Call("external", Ok)
    /\ UNCHANGED <<store, auth_data, auth_file, settings, settings_file,
                   preferences, prefs_file, cipher, key_ret, history, faults>>

CipherCalls ==
    \/ \E password \in Passwords, nonce_bytes \in GenNonces :
          \E new_key \in Pick(~key_file.exists, GenKeys),
             cut \in Pick(~key_file.exists, PartialCuts),
             key_fault \in Pick(~key_file.exists, KeyFaults) :
             encrypt_password(password, new_key, cut, nonce_bytes,
                              key_fault) /\ Quiet
    \/ \E new_key \in Pick(~key_file.exists, GenKeys),
          cut \in Pick(~key_file.exists, PartialCuts),
          key_fault \in Pick(~key_file.exists, KeyFaults) :
          decrypt_password(new_key, cut, key_fault) /\ Quiet

NextCipher ==
    \/ CipherCalls
    \/ \E kf \in KeyFiles : ExternalKeyChange(kf) /\ Quiet

SpecCipher == InitCipher /\ [][NextCipher]_vars

\* The replacements tried for a character: two other characters of the
\* alphabet, the padding character and a character outside the alphabet.
Replacements(x) == {(x + 1) % 64, (x + 32) % 64, PadChar, BadChar} \ {x}

Positions == IF IsSome(cipher.text) THEN 1..Len(cipher.text[1]) ELSE {}

NextTamper ==
    \/ CipherCalls
    \/ \E i \in Positions : \E c \in Replacements(cipher.text[1][i]) :
          Tamper(i, c) /\ Quiet

InitTamper == InitCipher /\ key_file \in InitialKeyFiles

SpecTamper == InitTamper /\ [][NextTamper]_vars

(***************************************************************************)
(* The SettingsManager called from two threads at once, step by step: the  *)
(* setter's three lines under the lock (settings.rs 91-93), then           *)
(* save_to_disk, which takes the lock again (142) and keeps the guard to   *)
(* its end (157), and whose fs::write (153) is File::create, which         *)
(* truncates the file, followed by write_all.  The process can stop at     *)
(* any step; the manager is then constructed again on the same path.       *)
(***************************************************************************)
\* The update each setter is called with.
ThreadUpdates ==
    [update_notification_settings |->
         [enabled |-> FALSE, sound_enabled |-> TRUE, sound_volume |-> 0,
          desktop_alerts |-> FALSE],
     update_startup_settings |->
         [auto_launch |-> TRUE, start_minimized |-> TRUE],
     update_file_settings |->
         [download_location |-> "/home/ann/Downloads",
          auto_accept_from |-> <<"u2", "u3">>]]

\* A variant that builds the record from the defaults and the update.
PatchedFromDefaults(record, op, updates) ==
    IF op = "update_notification_settings"
    THEN [default_settings EXCEPT !.notifications = updates]
    ELSE IF op = "update_startup_settings"
         THEN [default_settings EXCEPT !.startup = updates]
         ELSE [default_settings EXCEPT !.files = updates]

\* settings.notifications = updates, settings.startup = updates,
\* settings.files = updates
Patched(record, op, updates) ==
    IF op = "update_notification_settings"
    THEN [record EXCEPT !.notifications = updates]
    ELSE IF op = "update_startup_settings"
         THEN [record EXCEPT !.startup = updates]
         ELSE [record EXCEPT !.files = updates]

\* The sub-record a setter stores.
SubRecord(record, op) ==
    IF op = "update_notification_settings" THEN record.notifications
    ELSE IF op = "update_startup_settings" THEN record.startup
    ELSE record.files

InitThreads ==
    /\ store = "settings"
    /\ auth_file = NoFile
    /\ prefs_file = NoFile
    /\ key_file = NoFile
    /\ settings_file \in
           {NoFile,
            JsonFile(SettingsToJson(
                         [default_settings EXCEPT
                             !.notifications.sound_volume = 20]), UmaskMode)}
    /\ auth_data = None
    /\ settings = SettingsLoad(default_settings, settings_file).mem
    /\ preferences = DefaultPreferences
    /\ last = Call("new", SettingsLoad(default_settings, settings_file).res)
    /\ cipher = NoCipher
    /\ key_ret = NoKeyCall
    /\ issued = None
    /\ history = NoHistory
    /\ faults = 0
    /\ emitted = <<>>
    /\ lock = None
    /\ threads = NoCalls

ThreadFrame ==
    UNCHANGED <<store, auth_data, auth_file, preferences, prefs_file, key_file,
                cipher, key_ret, issued, history, faults, emitted>>

\* A variant that does not drop the guard before it saves.
ThreadUpdateKeepsGuard(t, op) ==
    /\ store = "settings"
    /\ threads[t].pc = "idle"
    /\ lock = None
    /\ lock' = Some(t)
    /\ settings' = Patched(settings, op, ThreadUpdates[op])
    /\ threads' = [threads EXCEPT ![t] = [Idle EXCEPT !.pc = "dropped",
                                                      !.op = op]]
    /\ UNCHANGED <<settings_file, last>>
    /\ ThreadFrame

\* Lines 91-93 (100-102, 109-111): lock, store the sub-record, drop.
ThreadUpdate(t, op) ==
    /\ store = "settings"
    /\ threads[t].pc = "idle"
    /\ lock = None
    /\ settings' = Patched(settings, op, ThreadUpdates[op])
    /\ threads' = [threads EXCEPT ![t] = [Idle EXCEPT !.pc = "dropped",
                                                      !.op = op]]
    /\ UNCHANGED <<settings_file, last, lock>>
    /\ ThreadFrame

\* A variant that serializes the record without holding the lock.
ThreadSaveUnlocked(t) ==
    /\ threads[t].pc = "dropped"
    /\ threads' = [threads EXCEPT ![t].pc = "locked",
                                  ![t].json = SettingsToJson(settings)]
    /\ UNCHANGED <<settings, settings_file, last, lock>>
    /\ ThreadFrame

\* save_to_disk, lines 142-145: lock and serialize.
ThreadSaveLock(t) ==
    /\ threads[t].pc = "dropped"
    /\ lock = None
    /\ lock' = Some(t)
    /\ threads' = [threads EXCEPT ![t].pc = "locked",
                                  ![t].json = SettingsToJson(settings)]
    /\ UNCHANGED <<settings, settings_file, last>>
    /\ ThreadFrame

\* fs::write, line 153, its first half: File::create truncates the file.
ThreadCreate(t) ==
    /\ threads[t].pc = "locked"
    /\ settings_file' = Written(settings_file, None)
    /\ threads' = [threads EXCEPT ![t].pc = "created"]
    /\ UNCHANGED <<settings, last, lock>>
    /\ ThreadFrame

\* fs::write, line 153, its second half: write_all.
ThreadWriteAll(t) ==
    /\ threads[t].pc = "created"
    /\ settings_file' = Written(settings_file, Some(threads[t].json))
    /\ threads' = [threads EXCEPT ![t].pc = "written"]
    /\ UNCHANGED <<settings, last, lock>>
    /\ ThreadFrame

\* Lines 156-157 and 95: the guard is dropped and the setter returns Ok.
ThreadReturn(t) ==
    /\ threads[t].pc = "written"
    /\ lock' = None
    /\ threads' = [threads EXCEPT ![t].pc = "returned"]
    /\ last' = Call(threads[t].op, Ok)
    /\ UNCHANGED <<settings, settings_file>>
    /\ ThreadFrame

\* The process stops, and SettingsManager::new runs on the same path.
Crash ==
    /\ faults < MaxFaults
    /\ faults' = faults + 1
    /\ LET loaded == SettingsLoad(default_settings, settings_file)
       IN  /\ settings' = loaded.mem
           /\ last' = Call("crash", loaded.res)
    /\ lock' = None
    /\ threads' = NoCalls
    /\ UNCHANGED <<store, auth_data, auth_file, settings_file, preferences,
                   prefs_file, key_file, cipher, key_ret, issued, history,
                   emitted>>

NextThreads ==
    \/ \E t \in Threads, op \in DOMAIN ThreadUpdates : ThreadUpdate(t, op)
    \/ \E t \in Threads : ThreadSaveLock(t)
    \/ \E t \in Threads : ThreadCreate(t)
    \/ \E t \in Threads : ThreadWriteAll(t)
    \/ \E t \in Threads : ThreadReturn(t)
    \/ Crash

SpecThreads == InitThreads /\ [][NextThreads]_vars

(***************************************************************************)
(* The three managers called from two threads at once, one manager in a    *)
(* behaviour.  A call of the AuthManager or of the AuthPreferencesManager  *)
(* is a sequence of steps, each of them what the call does between two     *)
(* points where the other thread can run: the assignment of the record     *)
(* under the lock, save_to_disk taking the lock again, the write and the   *)
(* return, and for the commands of the session the event after the return. *)
(* get_or_create_encryption_key runs under no lock (auth_preferences.rs    *)
(* 79, 150), so its exists(), its File::create, its write_all and its      *)
(* set_permissions are steps of their own.  The calls of the               *)
(* SettingsManager are the steps of SpecThreads.  No call of the file      *)
(* system fails and the process does not stop.                             *)
(***************************************************************************)
\* The session file the AuthManager is constructed on.
SignedInFile ==
    JsonFile(AuthDataToJson([user |-> Bob, token |-> "t0",
                             refresh_token |-> "r0"]), UmaskMode)

\* The calls of the session a thread makes: the call and its user argument.
AuthCalls ==
    {[op |-> "set_auth", user |-> Some(Ann)],
     [op |-> "update_user", user |-> Some(Bob)],
     [op |-> "update_user", user |-> Some(Ann)],
     [op |-> "clear_auth", user |-> None]}

\* The password each thread passes to save_preferences, and the record.
ThreadPasswords == <<(<<83>>), (<<233>>)>>
ThreadPreferences ==
    [remember_me |-> TRUE, remember_password |-> TRUE,
     sign_in_automatically |-> FALSE,
     remembered_email |-> Some("ann@example.org"),
     encrypted_password |-> None]

\* The text encrypt_password returns to thread t for the key and the nonce
\* it has drawn, and what decrypt_password makes of a text under a key.
ThreadTexts ==
    [t \in Threads |->
        [key \in GenKeys |->
            [nonce_bytes \in GenNonces |->
                EncryptPassword(KeyFileOf(key, OwnerOnly), ThreadPasswords[t],
                                key, 0, nonce_bytes, "none").text]]]
SealedTexts ==
    {StaleText}
    \cup {ThreadTexts[t][key][nonce_bytes] :
             t \in Threads, key \in GenKeys, nonce_bytes \in GenNonces}
Opened ==
    [key \in GenKeys |->
        [encrypted \in SealedTexts |->
            DecryptPassword(KeyFileOf(key, OwnerOnly), encrypted, key, 0,
                            "none")]]

\* The preferences file of an earlier run that remembered a password.
RememberedFile ==
    JsonFile(PreferencesToJson(
                 [remember_me |-> TRUE, remember_password |-> TRUE,
                  sign_in_automatically |-> TRUE,
                  remembered_email |-> Some("bob@example.org"),
                  encrypted_password |-> Some(StaleText)]), OwnerOnly)

InitConcurrent ==
    /\ store \in Stores
    /\ auth_file \in (IF store = "auth" THEN {NoFile, SignedInFile}
                      ELSE {NoFile})
    /\ settings_file \in
           (IF store = "settings"
            THEN {NoFile,
                  JsonFile(SettingsToJson(
                               [default_settings EXCEPT
                                   !.notifications.sound_volume = 20]),
                           UmaskMode)}
            ELSE {NoFile})
    /\ prefs_file \in (IF store = "preferences" THEN {NoFile, RememberedFile}
                       ELSE {NoFile})
    /\ key_file = NoFile
    /\ auth_data = AuthLoad(None, auth_file).mem
    /\ settings = SettingsLoad(default_settings, settings_file).mem
    /\ preferences = PreferencesLoad(DefaultPreferences, prefs_file).mem
    /\ last = Call("new", Ok)
    /\ cipher = NoCipher
    /\ key_ret = NoKeyCall
    /\ issued = None
    /\ history = NoHistory
    /\ faults = 0
    /\ emitted = <<>>
    /\ lock = None
    /\ threads = NoCalls

\* What a step of a call of the session leaves alone.
AuthFrame ==
    UNCHANGED <<store, settings, settings_file, preferences, prefs_file,
                key_file, cipher, key_ret, issued, history, faults>>

\* A variant of the assignment that keeps the guard for the save.
AuthThreadStoreGuarded(t, call) ==
    /\ store = "auth"
    /\ threads[t].pc = "idle"
    /\ lock = None
    /\ auth_data' = IF call.op = "clear_auth" THEN None
                    ELSE Some([user |-> call.user[1], token |-> "t1",
                               refresh_token |-> "r1"])
    /\ lock' = Some(t)
    /\ threads' = [threads EXCEPT ![t] = [Idle EXCEPT !.pc = "auth_stored",
                                                      !.op = call.op,
                                                      !.arg = call.user]]
    /\ UNCHANGED <<auth_file, last, emitted>>
    /\ AuthFrame

\* set_auth (auth.rs 82-86), update_user (93-97, 100-102) and clear_auth
\* (107): the record is assigned under the lock and the lock is released;
\* update_user without a session returns its error.
AuthThreadStore(t, call) ==
    /\ store = "auth"
    /\ threads[t].pc = "idle"
    /\ lock = None
    /\ IF call.op = "update_user" /\ auth_data = None
       THEN /\ threads' = [threads EXCEPT
                              ![t] = [Idle EXCEPT !.pc = "returned",
                                                  !.op = call.op]]
            /\ last' = Call("update_user",
                            Err("No user is currently authenticated"))
            /\ UNCHANGED auth_data
       ELSE /\ auth_data' =
                   IF call.op = "set_auth"
                   THEN Some([user |-> call.user[1], token |-> "t1",
                              refresh_token |-> "r1"])
                   ELSE IF call.op = "update_user"
                        THEN Some([auth_data[1] EXCEPT !.user = call.user[1]])
                        ELSE None
            /\ threads' = [threads EXCEPT
                              ![t] = [Idle EXCEPT !.pc = "auth_stored",
                                                  !.op = call.op,
                                                  !.arg = call.user]]
            /\ UNCHANGED last
    /\ UNCHANGED <<auth_file, lock, emitted>>
    /\ AuthFrame

\* save_to_disk, auth.rs 136: the lock is taken.
AuthThreadLock(t) ==
    /\ threads[t].pc = "auth_stored"
    /\ lock = None
    /\ lock' = Some(t)
    /\ threads' = [threads EXCEPT ![t].pc = "auth_locked"]
    /\ UNCHANGED <<auth_data, auth_file, last, emitted>>
    /\ AuthFrame

\* save_to_disk, auth.rs 138-159: the record the guard shows is written, or
\* the file removed, and the guard is dropped; the method returns Ok.
AuthThreadSave(t) ==
    /\ threads[t].pc = "auth_locked"
    /\ auth_file' = AuthSave(auth_data, auth_file, "none").file
    /\ lock' = None
    /\ threads' = [threads EXCEPT ![t].pc = "auth_saved"]
    /\ UNCHANGED <<auth_data, last, emitted>>
    /\ AuthFrame

\* The command, auth.rs 192, 207, 218: the event, then Ok.
AuthThreadEmit(t, delivered) ==
    /\ threads[t].pc = "auth_saved"
    /\ emitted' = <<IF threads[t].op = "clear_auth"
                    THEN Emit("auth-cleared", None, delivered)
                    ELSE Emit("auth-changed", threads[t].arg, delivered)>>
    /\ threads' = [threads EXCEPT ![t].pc = "returned"]
    /\ last' = Call(threads[t].op, Ok)
    /\ UNCHANGED <<auth_data, auth_file, lock>>
    /\ AuthFrame

\* What a step of save_preferences leaves alone.
PrefsFrame ==
    UNCHANGED <<store, auth_data, auth_file, settings, settings_file, cipher,
                issued, history, faults, emitted>>

\* get_remembered_credentials, lines 102-105 and 107-111: the lock is
\* taken and kept; with no text stored the call returns at once.
PrefsThreadCredentials(t) ==
    /\ store = "preferences"
    /\ threads[t].pc = "idle"
    /\ lock = None
    /\ IF preferences.encrypted_password = None
       THEN /\ threads' = [threads EXCEPT
                              ![t] = [Idle EXCEPT
                                         !.pc = "returned",
                                         !.op = "get_remembered_credentials"]]
            /\ last' = [Call("get_remembered_credentials", Ok) EXCEPT
                           !.creds = [email |-> preferences.remembered_email,
                                      password |-> None]]
            /\ UNCHANGED lock
       ELSE /\ threads' = [threads EXCEPT
                              ![t] = [Idle EXCEPT
                                         !.pc = "creds_locked",
                                         !.op = "get_remembered_credentials",
                                         !.arg = preferences.encrypted_password]]
            /\ lock' = Some(t)
            /\ UNCHANGED last
    /\ UNCHANGED <<preferences, prefs_file, key_file, key_ret>>
    /\ PrefsFrame

\* save_preferences, line 79, and get_remembered_credentials, line 106:
\* encrypt_password and decrypt_password ask for the key (150, 173), and
\* get_or_create_encryption_key looks for the key file (116).  A file that
\* exists is read (117-126); it may be one the other thread has created and
\* not yet written.  An error is returned to the caller, whose guard is
\* dropped.
PrefsThreadKey(t, op) ==
    /\ store = "preferences"
    /\ IF key_file.exists
       THEN LET got == GetOrCreateEncryptionKey(key_file, <<>>, 0, "none")
            IN  /\ key_ret' = KeyRet(got)
                /\ IF got.ok
                   THEN /\ threads' = [threads EXCEPT ![t].pc = "keyed",
                                                      ![t].op = op,
                                                      ![t].key = got.key]
                        /\ UNCHANGED <<last, lock>>
                   ELSE /\ threads' = [threads EXCEPT
                                          ![t] = [Idle EXCEPT
                                                     !.pc = "returned",
                                                     !.op = op]]
                        /\ last' =
                              IF op = "save_preferences"
                              THEN [Call(op, Err(got.err)) EXCEPT
                                       !.remember = TRUE,
                                       !.password =
                                           Some(ThreadPasswords[t])]
                              ELSE Call(op, Err(got.err))
                        /\ lock' = IF op = "save_preferences" THEN lock
                                   ELSE None
       ELSE /\ threads' = [threads EXCEPT ![t].pc = "key_missing",
                                          ![t].op = op]
            /\ UNCHANGED <<key_ret, last, lock>>
    /\ UNCHANGED <<preferences, prefs_file, key_file>>
    /\ PrefsFrame

\* The first step of save_preferences with a password to remember.
PrefsThreadSaveKey(t) ==
    /\ threads[t].pc = "idle"
    /\ PrefsThreadKey(t, "save_preferences")

\* get_remembered_credentials, line 106, with the guard held.
PrefsThreadCredentialsKey(t) ==
    /\ threads[t].pc = "creds_locked"
    /\ PrefsThreadKey(t, "get_remembered_credentials")

\* Lines 129-133: a key is drawn, and fs::write begins: File::create leaves
\* an empty key file.
PrefsThreadKeyCreate(t, new_key) ==
    /\ threads[t].pc = "key_missing"
    /\ key_file' = Written(key_file, <<>>)
    /\ threads' = [threads EXCEPT ![t].pc = "key_created",
                                  ![t].key = Some(new_key)]
    /\ UNCHANGED <<preferences, prefs_file, key_ret, last, lock>>
    /\ PrefsFrame

\* Line 133, the second half of fs::write: write_all.
PrefsThreadKeyWriteAll(t) ==
    /\ threads[t].pc = "key_created"
    /\ key_file' = Written(key_file, threads[t].key[1])
    /\ threads' = [threads EXCEPT ![t].pc = "key_written"]
    /\ UNCHANGED <<preferences, prefs_file, key_ret, last, lock>>
    /\ PrefsFrame

\* Lines 136-144: fs::set_permissions, and the key drawn is returned.
PrefsThreadKeyChmod(t) ==
    /\ threads[t].pc = "key_written"
    /\ key_file' = SetPermissions(key_file)
    /\ key_ret' = [called |-> TRUE, ok |-> TRUE, err |-> "",
                   key |-> threads[t].key]
    /\ threads' = [threads EXCEPT ![t].pc = "keyed"]
    /\ UNCHANGED <<preferences, prefs_file, last, lock>>
    /\ PrefsFrame

\* Lines 151-168, 80 and 88: the password is sealed under the key the
\* thread holds, and the record is assigned under the lock.
PrefsThreadStore(t, nonce_bytes) ==
    /\ threads[t].pc = "keyed"
    /\ threads[t].op = "save_preferences"
    /\ lock = None
    /\ LET encrypted == ThreadTexts[t][threads[t].key[1]][nonce_bytes]
           stored == PreferencesToStore(ThreadPreferences,
                                        Some(ThreadPasswords[t]), encrypted)
       IN  /\ preferences' = stored
           /\ threads' = [threads EXCEPT ![t].pc = "prefs_stored",
                                         ![t].arg = Some(stored)]
    /\ UNCHANGED <<prefs_file, key_file, key_ret, last, lock>>
    /\ PrefsFrame

\* Lines 174-194 and 111: the text is opened under the key the thread
\* holds, the result is returned and the guard is dropped.
PrefsThreadDecrypt(t) ==
    /\ threads[t].pc = "keyed"
    /\ threads[t].op = "get_remembered_credentials"
    /\ LET dec == Opened[threads[t].key[1]][threads[t].arg[1]]
       IN  last' = IF dec.ok
                   THEN [Call("get_remembered_credentials", Ok) EXCEPT
                            !.creds =
                                [email |-> preferences.remembered_email,
                                 password |-> Some(dec.s)]]
                   ELSE Call("get_remembered_credentials", Err(dec.err))
    /\ lock' = None
    /\ threads' = [threads EXCEPT ![t].pc = "returned"]
    /\ UNCHANGED <<preferences, prefs_file, key_file, key_ret>>
    /\ PrefsFrame

\* save_to_disk, line 215: the lock is taken.
PrefsThreadLock(t) ==
    /\ threads[t].pc = "prefs_stored"
    /\ lock = None
    /\ lock' = Some(t)
    /\ threads' = [threads EXCEPT ![t].pc = "prefs_locked"]
    /\ UNCHANGED <<preferences, prefs_file, key_file, key_ret, last>>
    /\ PrefsFrame

\* save_to_disk, lines 217-239, and line 90: the record the guard shows is
\* written, the guard is dropped and save_preferences returns Ok.
PrefsThreadSave(t) ==
    /\ threads[t].pc = "prefs_locked"
    /\ prefs_file' = PreferencesSave(preferences, prefs_file, "none").file
    /\ lock' = None
    /\ threads' = [threads EXCEPT ![t].pc = "returned"]
    /\ last' = [Call("save_preferences", Ok)
                   EXCEPT !.remember = TRUE,
                          !.password = Some(ThreadPasswords[t])]
    /\ UNCHANGED <<preferences, key_file, key_ret>>
    /\ PrefsFrame

\* The steps of the call of thread t that is in progress.
ThreadStep(t) ==
    \/ ThreadSaveLock(t)
    \/ ThreadCreate(t)
    \/ ThreadWriteAll(t)
    \/ ThreadReturn(t)
    \/ AuthThreadLock(t)
    \/ AuthThreadSave(t)
    \/ \E delivered \in BOOLEAN : AuthThreadEmit(t, delivered)
    \/ \E new_key \in GenKeys : PrefsThreadKeyCreate(t, new_key)
    \/ PrefsThreadCredentialsKey(t)
    \/ PrefsThreadKeyWriteAll(t)
    \/ PrefsThreadKeyChmod(t)
    \/ \E nonce_bytes \in GenNonces : PrefsThreadStore(t, nonce_bytes)
    \/ PrefsThreadDecrypt(t)
    \/ PrefsThreadLock(t)
    \/ PrefsThreadSave(t)

\* The first step of a call.
ThreadCall(t) ==
    \/ \E op \in DOMAIN ThreadUpdates : ThreadUpdate(t, op)
    \/ \E call \in AuthCalls : AuthThreadStore(t, call)
    \/ PrefsThreadCredentials(t)
    \/ PrefsThreadSaveKey(t)

NextConcurrent == \E t \in Threads : ThreadCall(t) \/ ThreadStep(t)

SpecConcurrent == InitConcurrent /\ [][NextConcurrent]_vars

\* Where a call stands between the assignment of its record and its save,
\* and where it holds the lock.
StoredPcs == {"dropped", "auth_stored", "prefs_stored"}
LockedPcs == {"locked", "created", "written", "auth_locked", "prefs_locked"}
HoldsLock(t) ==
    \/ threads[t].pc \in LockedPcs
    \/ /\ threads[t].op = "get_remembered_credentials"
       /\ threads[t].pc \notin {"idle", "returned"}

\* A call that stores a record has returned success: update_user and
\* save_preferences return an error before they store anything, and then
\* the thread holds no value.
Saved(t) ==
    /\ threads[t].pc = "returned"
    /\ threads[t].op # "get_remembered_credentials"
    /\ threads[t].op \in {"update_user", "save_preferences"}
       => IsSome(threads[t].arg)

\* No call is in progress and at least one that stores a record has
\* returned success.
Quiescent ==
    /\ \A t \in Threads : threads[t].pc \in {"idle", "returned"}
    /\ \E t \in Threads : Saved(t)

\* The file holds what save_to_disk writes for the record in memory.
Persisted ==
    IF store = "auth"
    THEN IF IsSome(auth_data)
         THEN /\ auth_file.exists
              /\ auth_file.contents = Some(AuthDataToJson(auth_data[1]))
         ELSE ~auth_file.exists
    ELSE IF store = "settings"
         THEN /\ settings_file.exists
              /\ settings_file.contents = Some(SettingsToJson(settings))
         ELSE /\ prefs_file.exists
              /\ prefs_file.contents = Some(PreferencesToJson(preferences))

\* Every thread that is in a call gets to take its next step.
SpecConcurrentFair ==
    SpecConcurrent /\ \A t \in Threads : WF_vars(ThreadStep(t))

(***************************************************************************)
(* Properties of the stores, checked under Spec.                           *)
(***************************************************************************)

\* C1: after a successful save_preferences whose record has
\* remember_password false, or that was given no password, the encrypted
\* password is None in memory and null in the preferences file, whatever
\* the password argument, the encrypted_password of the record passed in
\* and the text stored before.
C1_ClearedUnlessRemembered ==
    (/\ last.op = "save_preferences"
     /\ last.ok
     /\ (~last.remember \/ last.password = None))
    => /\ preferences.encrypted_password = None
       /\ prefs_file.exists
       /\ IsSome(prefs_file.contents)
       /\ HasField(prefs_file.contents[1], "encryptedPassword", "null")

\* A save with a password and remember_password false has succeeded right
\* after one that had stored an encrypted password.
C1_Witness ==
    /\ last.op = "save_preferences"
    /\ last.ok
    /\ ~last.remember
    /\ IsSome(last.password)
    /\ history.phase = "forgotten"
    /\ preferences.encrypted_password = None

\* C2: in every reachable state of the preferences manager the record in
\* memory has no encrypted password while remember_password is false.
C2_NoTextUnlessRemembered ==
    ~(IsSome(preferences.encrypted_password) /\ ~preferences.remember_password)

C6_FreshStoreHoldsTheRecord ==
    (/\ last.ok
     /\ last.op \in {"set_auth", "update_user", "clear_auth",
                     "update_notification_settings", "update_startup_settings",
                     "update_file_settings", "reset_settings",
                     "save_preferences", "clear_preferences"})
    => /\ store = "auth"
          => /\ AuthLoad(None, auth_file).mem = auth_data
             /\ last.op = "clear_auth"
                => auth_data = None /\ ~auth_file.exists
             /\ last.op # "clear_auth" => IsSome(auth_data)
       /\ store = "settings"
          => SettingsLoad(default_settings, settings_file).mem = settings
       /\ store = "preferences"
          => PreferencesLoad(DefaultPreferences, prefs_file).mem = preferences

\* update_user has succeeded and replaced the user of a stored session.
C6_Witness ==
    /\ store = "auth"
    /\ last.op = "update_user"
    /\ last.ok
    /\ IsSome(auth_data)
    /\ auth_data[1].user = Bob
    /\ auth_file.exists
    /\ AuthLoad(None, auth_file).mem = auth_data

\* C7: a store constructed where no file exists reports no error, creates
\* no file and holds the default record: no session, the default
\* preferences (sign_in_automatically true, the rest false or None), the
\* default settings.
C7_MissingFileTolerated ==
    /\ [](last.op = "new"
          => /\ (store = "auth" /\ ~auth_file.exists)
                => last.ok /\ auth_data = None
             /\ (store = "settings" /\ ~settings_file.exists)
                => last.ok /\ settings = default_settings
             /\ (store = "preferences" /\ ~prefs_file.exists)
                => /\ last.ok
                   /\ preferences = [remember_me |-> FALSE,
                                     remember_password |-> FALSE,
                                     sign_in_automatically |-> TRUE,
                                     remembered_email |-> None,
                                     encrypted_password |-> None])
    /\ [][last'.op = "new"
          => /\ ~auth_file.exists => ~auth_file'.exists
             /\ ~settings_file.exists => ~settings_file'.exists
             /\ ~prefs_file.exists => ~prefs_file'.exists]_vars

\* A session store was constructed again after a set_auth whose write was
\* refused, where there is still no file.
C7_Witness ==
    /\ store = "auth"
    /\ last.op = "new"
    /\ last.ok
    /\ faults > 0
    /\ ~auth_file.exists
    /\ auth_data = None

\* C8: a store constructed on a file that does not parse as its record
\* holds the default record and leaves the file as it was; a load that
\* fails replaces nothing of the record in memory.
C8_CorruptFileTolerated ==
    /\ [](last.op = "new"
          => /\ (/\ store = "auth"
                 /\ auth_file.exists
                 /\ (auth_file.contents = None
                     \/ ~AuthDataParses(auth_file.contents[1])))
                => auth_data = None
             /\ (/\ store = "settings"
                 /\ settings_file.exists
                 /\ (settings_file.contents = None
                     \/ ~SettingsParses(settings_file.contents[1])))
                => settings = default_settings
             /\ (/\ store = "preferences"
                 /\ prefs_file.exists
                 /\ (prefs_file.contents = None
                     \/ ~PreferencesParses(prefs_file.contents[1])))
                => preferences = DefaultPreferences
             /\ ~last.ok
                => /\ store = "auth" => auth_data = None
                   /\ store = "settings" => settings = default_settings
                   /\ store = "preferences" => preferences = DefaultPreferences)
    /\ [][last'.op = "new"
          => /\ auth_file' = auth_file
             /\ settings_file' = settings_file
             /\ prefs_file' = prefs_file]_vars

\* A preferences store was constructed again on the remains of a write
\* that failed half way.
C8_Witness ==
    /\ store = "preferences"
    /\ last.op = "new"
    /\ ~last.ok
    /\ faults > 0
    /\ prefs_file.exists
    /\ Readable(prefs_file)
    /\ prefs_file.contents = None
    /\ preferences = DefaultPreferences

(***************************************************************************)
(* Properties of the cipher and the key provider, checked under            *)
(* SpecCipher and SpecTamper.                                              *)
(***************************************************************************)

\* C4: when encrypt_password has succeeded on a password and the key file
\* is still the one it left, decrypt_password of the text it returned
\* succeeds and returns exactly that password.
C4_RoundTrip ==
    [][(/\ last'.op = "decrypt_password"
        /\ IsSome(cipher.sealed)
        /\ cipher.text = cipher.sealed
        /\ key_file = cipher.kf)
       => /\ cipher'.out.done
          /\ cipher'.out.ok
          /\ Some(cipher'.out.s) = cipher.plain
          /\ last'.ok]_vars

\* A password of one two-byte scalar came back from decrypt_password.
C4_Witness ==
    /\ last.op = "decrypt_password"
    /\ IsSome(cipher.sealed)
    /\ cipher.text = cipher.sealed
    /\ key_file = cipher.kf
    /\ cipher.plain = Some(<<233>>)
    /\ cipher.out.ok
    /\ cipher.out.s = <<233>>

\* C5 as stated: decrypt_password of a text encrypt_password returned, one
\* character of which was changed, fails with the authentication error.
C5_TamperedFailsAuthentication ==
    (/\ last.op = "decrypt_password"
     /\ IsSome(cipher.sealed)
     /\ cipher.text # cipher.sealed)
    => ~cipher.out.ok /\ cipher.out.err = "Decryption failed"

\* C5: decrypt_password of a text encrypt_password returned, one character
\* of which was changed, never succeeds: it fails with the authentication
\* error when the changed text still decodes as base64, and with the
\* decoding error when it does not.
C5_TamperedNeverDecrypts ==
    (/\ last.op = "decrypt_password"
     /\ IsSome(cipher.sealed)
     /\ cipher.text # cipher.sealed)
    => /\ cipher.out.done
       /\ ~cipher.out.ok
       /\ cipher.out.s = <<>>
       /\ cipher.out.err = IF B64Decode(cipher.text[1]).ok
                           THEN "Decryption failed"
                           ELSE "Failed to decode encrypted password"

\* A changed text that still decodes was refused by the tag check.
C5_Witness ==
    /\ last.op = "decrypt_password"
    /\ IsSome(cipher.sealed)
    /\ cipher.text # cipher.sealed
    /\ B64Decode(cipher.text[1]).ok
    /\ cipher.out.err = "Decryption failed"

\* C9: once the key provider has returned a key, every later call returns
\* the same key as long as nothing but the key provider changes the key
\* file, and no call of the program changes a key file that exists.
C9_KeyStable ==
    [][/\ (last'.op \in CipherOps /\ key_ret'.ok /\ IsSome(issued))
          => key_ret'.key = issued
       /\ (last'.op \in CipherOps /\ key_file.exists)
          => key_file' = key_file]_vars

\* The key that was created by one call was returned again by a later one.
C9_Witness ==
    /\ last.op = "decrypt_password"
    /\ key_ret.called
    /\ key_ret.ok
    /\ IsSome(issued)
    /\ key_ret.key = issued
    /\ cipher.out.ok

\* C10: when the key file exists with a length other than KeyLen, the key
\* provider, and with it encrypt_password and decrypt_password, returns
\* an error and no key and leaves the key file as it is.
C10_WrongLengthRejected ==
    [][(/\ last'.op \in CipherOps
        /\ key_file.exists
        /\ Len(key_file.contents) # KeyLen)
       => /\ ~last'.ok
          /\ key_ret'.called
          /\ ~key_ret'.ok
          /\ key_ret'.key = None
          /\ key_file' = key_file]_vars

\* A call found a key file of another length and failed on its size.
C10_Witness ==
    /\ last.op \in CipherOps
    /\ ~last.ok
    /\ last.err = "Invalid encryption key size"
    /\ key_file.exists
    /\ Len(key_file.contents) # KeyLen
    /\ key_ret.key = None

\* C21 as stated: two calls of encrypt_password under the same key, the
\* second following the first, never draw the same nonce, and the texts
\* they return differ.
C21_NonceNeverRepeats ==
    [][(/\ last'.op = "encrypt_password"
        /\ IsSome(cipher.sealed)
        /\ IsSome(cipher'.sealed)
        /\ key_file = cipher.kf
        /\ key_file' = key_file)
       => /\ cipher'.nonce # cipher.nonce
          /\ cipher'.sealed # cipher.sealed]_vars

\* C21: each call of encrypt_password draws its nonce at random and keeps
\* no record of the nonces drawn before.  Two calls under the same key
\* return different texts whenever the nonces drawn differ, also for the
\* same password, and the same text only when both the nonce and the
\* password are the same.
C21_DistinctNoncesDistinctTexts ==
    [][(/\ last'.op = "encrypt_password"
        /\ IsSome(cipher.sealed)
        /\ IsSome(cipher'.sealed)
        /\ key_file = cipher.kf
        /\ key_file' = key_file)
       => /\ (cipher'.nonce # cipher.nonce) => (cipher'.sealed # cipher.sealed)
          /\ (cipher'.sealed = cipher.sealed)
             <=> (cipher'.nonce = cipher.nonce /\ cipher'.plain = cipher.plain)
          /\ SubSeq(B64Decode(cipher'.sealed[1]).bytes, 1, NonceLen)
             = cipher'.nonce[1]]_vars

\* The same password was encrypted twice under one key with two nonces,
\* and the two texts differ.
C21_Witness ==
    /\ last.op = "encrypt_password"
    /\ last.ok
    /\ IsSome(cipher.sealed)
    /\ IsSome(cipher.prev)
    /\ key_ret.ok
    /\ cipher.plain = Some(<<83>>)
    /\ cipher.nonce = Some(NonceOf(2))
    /\ cipher.prev[1]
       = B64Encode(NonceOf(1)
                   \o GcmSeal(key_ret.key[1], NonceOf(1), AsBytes(<<83>>)))
    /\ cipher.prev # cipher.sealed

(***************************************************************************)
(* Properties of the stores and of the commands, checked under Spec.       *)
(***************************************************************************)

\* C12: whenever an operation of a store returns an error, the record in
\* memory is what it was before the operation.
C12_ErrorLeavesMemory ==
    [][(/\ last'.op \in {"set_auth", "update_user", "clear_auth",
                         "update_notification_settings",
                         "update_startup_settings", "update_file_settings",
                         "reset_settings", "save_preferences",
                         "clear_preferences", "get_remembered_credentials"}
        /\ ~last'.ok)
       => /\ auth_data' = auth_data
          /\ settings' = settings
          /\ preferences' = preferences]_vars

\* C13: after a successful clear_auth the session file does not exist,
\* every getter of the session returns None and is_authenticated is false;
\* clear_auth with no session and no file succeeds and creates no file.
C13_SignedOut ==
    /\ []((last.op = "clear_auth" /\ last.ok)
          => /\ ~auth_file.exists
             /\ get_user = None
             /\ get_token = None
             /\ get_refresh_token = None
             /\ ~is_authenticated)
    /\ [][(last'.op = "clear_auth" /\ auth_data = None /\ ~auth_file.exists)
          => last'.ok /\ ~auth_file'.exists]_vars

\* clear_auth has succeeded and has broadcast the sign-out.
C13_Witness ==
    /\ store = "auth"
    /\ last.op = "clear_auth"
    /\ last.ok
    /\ ~auth_file.exists
    /\ ~is_authenticated
    /\ Len(emitted) = 1
    /\ emitted[1].event = "auth-cleared"

\* C14: after every successful write of the session file by set_auth or
\* update_user the file has owner-only permissions.
C14_SessionFileOwnerOnly ==
    (last.op \in {"set_auth", "update_user"} /\ last.ok)
    => auth_file.exists /\ auth_file.mode = OwnerOnly

\* C15: after every successful save_preferences or clear_preferences the
\* preferences file has owner-only permissions, whatever its permissions
\* were before.
C15_PreferencesFileOwnerOnly ==
    (last.op \in {"save_preferences", "clear_preferences"} /\ last.ok)
    => prefs_file.exists /\ prefs_file.mode = OwnerOnly

\* A save has succeeded on the preferences and the file is owner-only.
C15_Witness ==
    /\ store = "preferences"
    /\ last.op = "clear_preferences"
    /\ last.ok
    /\ prefs_file.exists
    /\ prefs_file.mode = OwnerOnly
    /\ preferences = DefaultPreferences

\* C16: update_user with no session fails with "No user is currently
\* authenticated", leaves the session absent and the session file as it
\* is, and emits no event.
C16_UpdateWithoutSession ==
    [][(last'.op = "update_user" /\ auth_data = None)
       => /\ ~last'.ok
          /\ last'.err = "No user is currently authenticated"
          /\ auth_data' = None
          /\ auth_file' = auth_file
          /\ emitted' = <<>>]_vars

\* update_user was refused for want of a session.
C16_Witness ==
    /\ store = "auth"
    /\ last.op = "update_user"
    /\ ~last.ok
    /\ last.err = "No user is currently authenticated"
    /\ auth_data = None
    /\ emitted = <<>>

\* C18: when get_remembered_credentials fails on the stored text, the
\* remembered email is still returned as it is stored.
C18_EmailReturnedOnFailure ==
    (last.op = "get_remembered_credentials" /\ ~last.ok)
    => last.creds.email = preferences.remembered_email

\* C20 as stated: a command of the session or the settings that returns
\* success has broadcast exactly one event that carries the new record,
\* and one that returns an error has broadcast none.
C20_OneEventWithRecord ==
    last.op \in {"set_auth", "update_user", "clear_auth",
                 "update_notification_settings", "update_startup_settings",
                 "update_file_settings", "reset_settings"}
    => IF last.ok
       THEN /\ Len(emitted) = 1
            /\ emitted[1].delivered
            /\ emitted[1].payload = IF store = "settings" THEN settings
                                    ELSE IF IsSome(auth_data)
                                         THEN auth_data[1].user
                                         ELSE <<>>
       ELSE emitted = <<>>

\* C20: a command of the session or the settings that returns success has
\* called app.emit exactly once, after the manager returned Ok, with the
\* user (set_auth, update_user), no payload (clear_auth), the new
\* sub-record (update_*_settings) or the whole record (reset_settings),
\* and has dropped the result of the emit; one that returns an error has
\* not called it.
C20_OneEmitAfterSuccess ==
    last.op \in {"set_auth", "update_user", "clear_auth",
                 "update_notification_settings", "update_startup_settings",
                 "update_file_settings", "reset_settings"}
    => IF last.ok
       THEN /\ Len(emitted) = 1
            /\ emitted[1].event =
                   IF last.op \in {"set_auth", "update_user"}
                   THEN "auth-changed"
                   ELSE IF last.op = "clear_auth" THEN "auth-cleared"
                   ELSE IF last.op = "reset_settings" THEN "settings-reset"
                   ELSE "settings-changed"
            /\ emitted[1].payload =
                   IF last.op \in {"set_auth", "update_user"}
                   THEN auth_data[1].user
                   ELSE IF last.op = "clear_auth" THEN <<>>
                   ELSE IF last.op = "reset_settings" THEN settings
                   ELSE IF last.op = "update_notification_settings"
                        THEN settings.notifications
                   ELSE IF last.op = "update_startup_settings"
                        THEN settings.startup
                   ELSE settings.files
       ELSE emitted = <<>>

\* update_startup_settings returned Ok although its event was not
\* delivered.
C20_Witness ==
    /\ last.op = "update_startup_settings"
    /\ last.ok
    /\ Len(emitted) = 1
    /\ ~emitted[1].delivered
    /\ emitted[1].payload = settings.startup

(***************************************************************************)
(* Properties of the SettingsManager called from two threads, checked      *)
(* under SpecThreads.                                                      *)
(***************************************************************************)

\* C11: the lock of the record is not held while a write of the record
\* file is in progress: no thread that is between the two halves of
\* fs::write holds the lock.
C11_LockFreeDuringWrite ==
    \A t \in Threads : threads[t].pc = "created" => lock # Some(t)

\* C17: a setter changes only its own sub-record in memory, a setter that
\* has returned finds its update in memory and, when no save is in
\* progress, in the file, and when both threads have returned the file
\* holds the record in memory: two updates of different sub-records both
\* survive, whatever the interleaving.
C17_UpdatesIndependent ==
    /\ [](\A t \in Threads :
             threads[t].pc = "returned"
             => /\ SubRecord(settings, threads[t].op)
                       = ThreadUpdates[threads[t].op]
                /\ lock = None
                   => /\ settings_file.exists
                      /\ IsSome(settings_file.contents)
                      /\ SettingsParses(settings_file.contents[1])
                      /\ SubRecord(SettingsFromJson(settings_file.contents[1]),
                                   threads[t].op)
                             = ThreadUpdates[threads[t].op]
                /\ (\A u \in Threads : threads[u].pc = "returned")
                   => SettingsLoad(default_settings, settings_file).mem
                          = settings)
    /\ [][\A t \in Threads :
             (threads[t].pc = "idle" /\ threads'[t].pc = "dropped")
             => \A o \in DOMAIN ThreadUpdates \ {threads'[t].op} :
                   SubRecord(settings', o) = SubRecord(settings, o)]_vars

\* Both threads have returned from setters of different sub-records and
\* both updates are in the record.
C17_Witness ==
    /\ \A t \in Threads : threads[t].pc = "returned"
    /\ threads[1].op = "update_notification_settings"
    /\ threads[2].op = "update_startup_settings"
    /\ settings.notifications = ThreadUpdates["update_notification_settings"]
    /\ settings.startup = ThreadUpdates["update_startup_settings"]
    /\ SettingsLoad(default_settings, settings_file).mem = settings

\* C19: when the process stops at any step of a setter, the record file
\* is absent or a complete serialization of a record.
C19_CrashLeavesWholeFile ==
    last.op = "crash"
    => \/ ~settings_file.exists
       \/ /\ IsSome(settings_file.contents)
          /\ SettingsParses(settings_file.contents[1])

(***************************************************************************)
(* Properties of the preferences and their key file, checked under Spec.   *)
(***************************************************************************)

\* C27: get_remembered_credentials changes neither the preferences in
\* memory, nor the preferences file, nor the key file, whether it succeeds
\* or fails.
C27_CredentialsReadOnly ==
    [][(last'.op = "get_remembered_credentials")
       => /\ preferences' = preferences
          /\ prefs_file' = prefs_file
          /\ key_file' = key_file]_vars

\* C28: when save_preferences is called with a password and
\* remember_password true and the key provider fails, the call returns that
\* error and leaves the preferences in memory and the preferences file as
\* they were.
C28_EncryptionFailureKeepsPreferences ==
    [][(/\ last'.op = "save_preferences"
        /\ last'.remember
        /\ IsSome(last'.password)
        /\ key_ret'.called
        /\ ~key_ret'.ok)
       => /\ ~last'.ok
          /\ last'.err = key_ret'.err
          /\ last'.err \in {"Failed to read encryption key",
                            "Invalid encryption key size",
                            "Failed to write encryption key",
                            "Failed to set encryption key permissions"}
          /\ preferences' = preferences
          /\ prefs_file' = prefs_file]_vars

\* A save failed on the size of the key file and the text stored before is
\* still in memory and in the file.
C28_Witness ==
    /\ last.op = "save_preferences"
    /\ last.remember
    /\ IsSome(last.password)
    /\ ~last.ok
    /\ last.err = "Invalid encryption key size"
    /\ preferences.encrypted_password = Some(StaleText)
    /\ IsSome(prefs_file.contents)
    /\ PreferencesParses(prefs_file.contents[1])
    /\ PreferencesFromJson(prefs_file.contents[1]) = preferences

(***************************************************************************)
(* Properties of the managers called from two threads, checked under       *)
(* SpecConcurrent and SpecConcurrentFair.                                  *)
(***************************************************************************)

\* C22: right after a setter has assigned its record and before its save
\* has taken the lock, the lock is free, the getter (get_user,
\* get_settings, get_preferences) returns the new value, and no file has
\* been written: the new value is visible before it is on disk.
C22_VisibleBeforeDurable ==
    [][\A t \in Threads :
          (threads[t].pc \notin StoredPcs /\ threads'[t].pc \in StoredPcs)
          => /\ lock' = None
             /\ UNCHANGED <<auth_file, settings_file, prefs_file>>
             /\ store = "auth" => get_user' = threads'[t].arg
             /\ store = "settings"
                => SubRecord(settings', threads'[t].op)
                   = ThreadUpdates[threads'[t].op]
             /\ store = "preferences"
                => Some(preferences') = threads'[t].arg]_vars

\* set_auth has assigned Ann's session and has not saved it: get_user
\* returns Ann while the file still holds Bob's session.
C22_Witness ==
    /\ store = "auth"
    /\ lock = None
    /\ \E t \in Threads :
          /\ threads[t].pc = "auth_stored"
          /\ threads[t].op = "set_auth"
          /\ \A u \in Threads \ {t} : threads[u].pc = "idle"
    /\ get_user = Some(Ann)
    /\ auth_file = SignedInFile
    /\ ~Persisted

\* C23: when the calls of both threads have returned, the file of the
\* store holds the serialization of the record in memory, and the session
\* file is absent exactly when there is no session.
C23_QuiescentConsistency ==
    Quiescent => Persisted

\* Two setters of different sub-records have both returned, and the file
\* holds both updates.
C23_Witness ==
    /\ store = "settings"
    /\ \A t \in Threads : threads[t].pc = "returned"
    /\ threads[1].op = "update_notification_settings"
    /\ threads[2].op = "update_file_settings"
    /\ settings.notifications = ThreadUpdates["update_notification_settings"]
    /\ settings.files = ThreadUpdates["update_file_settings"]
    /\ Persisted

\* C24: a thread never holds the lock where its call acquires it, and
\* under fair scheduling every call that has started returns.
C24_EveryCallReturns ==
    /\ [](\A t \in Threads : lock = Some(t) => HoldsLock(t))
    /\ \A t \in Threads :
          [](threads[t].pc # "idle" => <>(threads[t].pc = "returned"))

\* A call waits for the lock the save of the other thread holds.
C24_Witness ==
    /\ lock = Some(1)
    /\ HoldsLock(1)
    /\ threads[2].pc \in StoredPcs

\* C25: when the calls of save_preferences of both threads, started with
\* no key file, have returned success, the text in memory decrypts under
\* the key in the key file to the password of one of the calls.
C25_ConcurrentSavesDecryptable ==
    (/\ store = "preferences"
     /\ Quiescent
     /\ \A t \in Threads : threads[t].pc = "returned" => Saved(t))
    => /\ IsSome(preferences.encrypted_password)
       /\ LET dec == DecryptPassword(key_file,
                                     preferences.encrypted_password[1],
                                     <<>>, 0, "none")
          IN  /\ dec.ok
              /\ \E t \in Threads :
                    /\ threads[t].pc = "returned"
                    /\ dec.s = ThreadPasswords[t]

\* C26: when the commands of the session of both threads have returned,
\* the last event agrees with the session in memory: auth-cleared when
\* there is none, auth-changed with the user stored when there is one.
C26_LastEventAgrees ==
    (/\ store = "auth"
     /\ Quiescent
     /\ emitted # <<>>)
    => IF auth_data = None
       THEN emitted[1].event = "auth-cleared"
       ELSE /\ emitted[1].event = "auth-changed"
            /\ emitted[1].payload = get_user

=============================================================================
